---- MODULE Spec2Model ----
(***************************************************************************)
(* Model of src/backend/app.py, extract_keyframes_from_video (lines        *)
(* 243-423): the adaptive keyframe extraction and quality-assured frame    *)
(* selection pipeline, and analyze_video_sequence_with_gemini (lines       *)
(* 426-474), the retry loop around one analysis attempt.                   *)
(*                                                                         *)
(* Abstractions.                                                           *)
(*  - A decoded frame is a record of the four quantities the pipeline ever *)
(*    computes from it: pix (pixel content; the sum of cv2.absdiff of two  *)
(*    frames is |pix1 - pix2|), edge (Canny edge map; the sum of absdiff   *)
(*    of two edge maps is |edge1 - edge2|), sharp (variance of the         *)
(*    Laplacian of the grayscale frame) and bright (mean of the grayscale  *)
(*    frame).                                                              *)
(*  - The products 0.1*L, 0.9*L, 0.2*fps and 0.3*fps followed by int() are *)
(*    computed in tenths: the doubles 0.1, 0.2 and 0.9 lie above the       *)
(*    decimals and the relative error of the double 0.3 is below half a    *)
(*    unit in the last place, so int() of the IEEE product is the integer  *)
(*    part of the exact product (compared up to 200000).                   *)
(*  - int((duration - 0.3)*fps) is computed in IEEE doubles, digit by      *)
(*    digit: when fps is a multiple of 10 the product can fall just below  *)
(*    the integer the exact arithmetic gives.                              *)
(*  - duration is kept as the pair <<numerator, denominator>>; the double  *)
(*    is the correctly rounded quotient.                                   *)
(*  - The temp directory is a disk of blocks; a file occupies the blocks   *)
(*    written to it. Creating the file, each write(2) of the buffered      *)
(*    writer and closing the file are steps of their own, between which    *)
(*    another invocation can run. The blocks of a file unlinked while a    *)
(*    capture has it open stay allocated until the capture is released     *)
(*    or, after a failure, the caller drops the exception whose traceback  *)
(*    keeps the capture alive.                                             *)
(***************************************************************************)
EXTENDS Integers, Sequences, FiniteSets, TLC

\* ------------------------------------------------------------------ bounds

\* Largest frame count a container reports.
MaxFrames == 12

\* Largest max_retries a caller passes.
MaxRetries == 2

\* The buffer of the file object NamedTemporaryFile returns, in blocks: a
\* block is the unit in which the disk hands out space, and the buffer of a
\* file opened with the default buffering is one block (st_blksize).
BufferSize == 1

\* The blocks of an empty temp directory.
DiskBlocks == 128

\* Frame rates a decoder reports (0 = unreported).
FpsSet == {0, 1, 3, 4, 5}

\* ------------------------------------------------------------ frame library

\* Passes quality at the lower boundaries (sharpness 100, brightness 30);
\* sharpness + brightness = 130.
FrameA == [pix |-> 30, edge |-> 0, sharp |-> 100, bright |-> 30]
\* Blurry: sharpness 99 fails; sharpness + brightness = 139.
FrameC == [pix |-> 40, edge |-> 1, sharp |-> 99, bright |-> 40]
\* Passes quality at the upper brightness boundary (220); score 520.
FrameD == [pix |-> 220, edge |-> 2, sharp |-> 300, bright |-> 220]
\* Overexposed: brightness 221 fails; sharpness + brightness = 621.
FrameE == [pix |-> 221, edge |-> 2, sharp |-> 400, bright |-> 221]

FrameKinds == {FrameA, FrameC, FrameD, FrameE}

\* What cap.read() yields for a frame the decoder cannot read.
NoFrame == [pix |-> 0, edge |-> 0, sharp |-> 0, bright |-> 0]

\* ------------------------------------------------------------------- state

VARIABLES
    video_bytes,            \* the input: [valid, size, fps, total, frames,
                            \* unreadable]; size is len(video_bytes) in
                            \* blocks, rounded up
    tmp_ok,                 \* environment: the temp directory accepts a new file
    disk_free,              \* free space of the temp directory, in blocks
    files,                  \* temp files that exist on disk
    file_size,              \* the blocks each temp file occupies
    file_bytes,             \* whose bytes each temp file holds: "A" (this
                            \* invocation), "B" (the concurrent one), "" (a
                            \* file whose write did not complete)
    held,                   \* the blocks of each unlinked temp file that a
                            \* capture never released still has open
    names_used,             \* number of temp file names handed out so far
    temp_file,              \* 0 = no file object yet, else the name of the
                            \* file temp_file was created with
    temp_video_path,        \* 0 = name not bound, else the temp file's name
    cap,                    \* "none" | "closed" | "open" | "released"
    cap_bytes,              \* whose bytes the capture decodes: "A", "B" or ""
    fps, total_frames, duration,
    start_frame, end_frame,
    frames_data,            \* sequence of <<frame_idx, frame>>
    reads,                  \* number of cap.read() calls made
    motion_scores,          \* sequence of <<i, combined_score, frame_idx>>
    peak_motion_idx, peak_frame_idx,
    f1_idx, f2_idx, f4_idx, f5_idx,
    frames,                 \* the five target window positions, in role order
    quality_checked_frames, \* window positions of the output frames
    exc,                    \* message of the exception being handled, or ""
    result,                 \* [kind, msg, frames]
    pc,
    run,                    \* number of the current invocation
    prev_result,            \* result and positions of the previous invocation
    other,                  \* a concurrent invocation B: [kind, pc, file,
                            \* path, cap, cap_bytes, exc, result]
    GEMINI_AVAILABLE,       \* the module-level flag
    max_retries,            \* argument of analyze_video_sequence_with_gemini
    attempt,                \* the loop variable of line 440
    attempts_made,          \* the attempts performed: <<number, response>>
    analysis,               \* what the call returned: [fallback, empty, message]
    analysis_pc             \* "idle" | "run" | "done"

io == <<video_bytes, tmp_ok>>
fs == <<files, file_bytes, file_size, held, disk_free, names_used, temp_file,
       temp_video_path>>
props == <<fps, total_frames, duration>>
window == <<start_frame, end_frame, frames_data, reads>>
selection == <<peak_motion_idx, peak_frame_idx, f1_idx, f2_idx, f4_idx, f5_idx, frames>>
runs == <<run, prev_result, other>>
gemini == <<GEMINI_AVAILABLE, max_retries, attempt, attempts_made, analysis,
            analysis_pc>>
extraction == <<io, fs, props, window, selection, cap, cap_bytes,
               motion_scores, quality_checked_frames, exc, result, pc, runs>>

vars == <<video_bytes, tmp_ok, disk_free, files, file_bytes, file_size, held,
          names_used, temp_file, temp_video_path,
          cap, cap_bytes,
          fps, total_frames, duration, start_frame, end_frame, frames_data,
          reads, motion_scores, peak_motion_idx, peak_frame_idx,
          f1_idx, f2_idx, f4_idx, f5_idx, frames, quality_checked_frames,
          exc, result, pc, run, prev_result, other,
          GEMINI_AVAILABLE, max_retries, attempt, attempts_made, analysis,
          analysis_pc>>

\* ----------------------------------------------------------------- helpers

Max(a, b) == IF a >= b THEN a ELSE b
Min(a, b) == IF a <= b THEN a ELSE b
Abs(a) == IF a >= 0 THEN a ELSE -a

\* Python int() of the quotient n/d (d > 0): truncation toward zero.
Trunc(n, d) == IF n >= 0 THEN n \div d ELSE -((-n) \div d)

\* int(0.t * x) for a tenths digit t.
IntTenths(t, x) == Trunc(t * x, 10)

\* ------------------------------------------------- IEEE double arithmetic

\* Natural numbers of any size: sequences of limbs, least significant
\* first, without leading zero limbs; <<>> is 0.
Radix == 2^15

RECURSIVE BigNorm(_)
BigNorm(a) ==
    IF a = <<>> THEN a
    ELSE IF a[Len(a)] = 0 THEN BigNorm(SubSeq(a, 1, Len(a) - 1))
    ELSE a

\* The number x, 0 <= x < Radix * Radix.
BigFromInt(x) == BigNorm(<<x % Radix, x \div Radix>>)

\* The value of a number of at most two limbs.
BigToInt(a) ==
    IF a = <<>> THEN 0
    ELSE IF Len(a) = 1 THEN a[1]
    ELSE a[1] + Radix * a[2]

\* a * k + carry from limb i on, 0 <= k < Radix.
RECURSIVE MulFrom(_, _, _, _)
MulFrom(a, k, i, carry) ==
    IF i > Len(a) THEN (IF carry = 0 THEN <<>> ELSE <<carry>>)
    ELSE <<(a[i] * k + carry) % Radix>>
         \o MulFrom(a, k, i + 1, (a[i] * k + carry) \div Radix)

BigMulSmall(a, k) == BigNorm(MulFrom(a, k, 1, 0))

\* a + 1
RECURSIVE IncFrom(_, _)
IncFrom(a, i) ==
    IF i > Len(a) THEN <<1>>
    ELSE IF a[i] + 1 < Radix
         THEN <<a[i] + 1>> \o SubSeq(a, i + 1, Len(a))
         ELSE <<0>> \o IncFrom(a, i + 1)

BigInc(a) == IncFrom(a, 1)

\* a - b from limb i on with a borrow, for a >= b.
RECURSIVE SubFrom(_, _, _, _)
SubFrom(a, b, i, borrow) ==
    IF i > Len(a) THEN <<>>
    ELSE LET d == a[i] - (IF i <= Len(b) THEN b[i] ELSE 0) - borrow
         IN  <<d % Radix>> \o SubFrom(a, b, i + 1, IF d < 0 THEN 1 ELSE 0)

BigSub(a, b) == BigNorm(SubFrom(a, b, 1, 0))

\* The quotient of a by k from limb i down, with the remainder r of the
\* limbs above; 0 < k < Radix. The result is <<quotient, remainder>>.
RECURSIVE DivFrom(_, _, _, _)
DivFrom(a, k, i, r) ==
    IF i = 0 THEN <<<<>>, r>>
    ELSE LET cur == r * Radix + a[i]
             rest == DivFrom(a, k, i - 1, cur % k)
         IN  <<rest[1] \o <<cur \div k>>, rest[2]>>

BigDivSmall(a, k) ==
    LET qr == DivFrom(a, k, Len(a), 0) IN <<BigNorm(qr[1]), qr[2]>>

\* a * 2^s
BigShl(a, s) ==
    IF a = <<>> THEN a
    ELSE [i \in 1..(s \div 15) |-> 0] \o BigMulSmall(a, 2^(s % 15))

\* floor(a / 2^s)
BigShr(a, s) ==
    IF s \div 15 >= Len(a) THEN <<>>
    ELSE BigDivSmall(SubSeq(a, s \div 15 + 1, Len(a)), 2^(s % 15))[1]

\* The number of binary digits of a.
BigBitLen(a) ==
    IF a = <<>> THEN 0
    ELSE 15 * (Len(a) - 1)
         + (CHOOSE k \in 1..15 : 2^(k - 1) <= a[Len(a)] /\ a[Len(a)] < 2^k)

\* Binary digit i of a (digit 0 is the least significant).
BigBit(a, i) ==
    IF i \div 15 >= Len(a) THEN 0
    ELSE (a[i \div 15 + 1] \div 2^(i % 15)) % 2

\* The digits of a below digit i are all 0.
BigLowZero(a, i) ==
    /\ \A j \in 1..Len(a) : j <= i \div 15 => a[j] = 0
    /\ i \div 15 < Len(a) => a[i \div 15 + 1] % 2^(i % 15) = 0

\* A double: [m |-> significand of exactly 53 binary digits, e |-> exponent],
\* with value m * 2^e; 0.0 has m = <<>>.
FloatZero == [m |-> <<>>, e |-> 0]

\* The double nearest to n * 2^e (plus a nonzero amount below one unit of n
\* when inexact is TRUE), ties to the even significand.
RoundToDouble(n, e, inexact) ==
    LET len == BigBitLen(n)
        s == len - 53
    IN  IF len = 0 THEN FloatZero
        ELSE IF s <= 0 THEN [m |-> BigShl(n, -s), e |-> e + s]
        ELSE LET kept == BigShr(n, s)
                 half == BigBit(n, s - 1) = 1
                 more == inexact \/ ~BigLowZero(n, s - 1)
                 up == half /\ (more \/ BigBit(kept, 0) = 1)
                 m == IF up THEN BigInc(kept) ELSE kept
             IN  IF BigBitLen(m) > 53
                 THEN [m |-> BigShr(m, 1), e |-> e + s + 1]
                 ELSE [m |-> m, e |-> e + s]

\* The double n / d of two integers, 0 <= n and 0 < d < Radix.
FloatDiv(n, d) ==
    LET qr == BigDivSmall(BigShl(BigFromInt(n), 75), d)
    IN  RoundToDouble(qr[1], -75, qr[2] # 0)

\* The double a - b, for a >= b.
FloatSub(a, b) ==
    LET e == Min(a.e, b.e)
    IN  RoundToDouble(BigSub(BigShl(a.m, a.e - e), BigShl(b.m, b.e - e)),
                      e, FALSE)

\* The double a * k, 0 <= k < Radix.
FloatMul(a, k) == RoundToDouble(BigMulSmall(a.m, k), a.e, FALSE)

\* Python int() of a double a >= 0.
FloatInt(a) ==
    IF a.m = <<>> THEN 0
    ELSE IF a.e >= 0 THEN BigToInt(BigShl(a.m, a.e))
    ELSE BigToInt(BigShr(a.m, -a.e))

\* ------------------------------------------------------------------ inputs

\* A video of n frames in three zones: frame k1 before s, frame k2 in
\* [s, e) and frame k3 from e on; when hole is TRUE the decoder cannot read
\* the frames of [s, e).
MakeVideo(f, n, k1, k2, k3, s, e, hole) ==
    [valid |-> TRUE, size |-> n + 1, fps |-> f, total |-> n,
     frames |-> [i \in 0..(n - 1) |->
                    IF i < s THEN k1 ELSE IF i < e /\ ~hole THEN k2 ELSE k3],
     unreadable |-> IF hole THEN {i \in 0..(n - 1) : s <= i /\ i < e} ELSE {}]

\* The empty byte buffer: no video container.
NotAVideo ==
    [valid |-> FALSE, size |-> 0, fps |-> 0, total |-> 0,
     frames |-> [i \in {} |-> NoFrame], unreadable |-> {}]

\* sz blocks of bytes that are no video container.
RandomBytes(sz) == [NotAVideo EXCEPT !.size = sz]

\* The same bytes padded or trimmed to sz blocks.
Resized(v, sz) == [v EXCEPT !.size = sz]

\* The inputs: a buffer that is no video, or a three-zone video.
IsInput(v) ==
    \/ v = NotAVideo
    \/ \E sz \in 1..(BufferSize + 1) : v = RandomBytes(sz)
    \/ \E f \in FpsSet, n \in 0..MaxFrames, hole \in BOOLEAN,
          k1 \in FrameKinds, k2 \in FrameKinds, k3 \in FrameKinds :
          \E s \in 0..n : \E e \in s..n :
              v = MakeVideo(f, n, k1, k2, k3, s, e, hole)

\* A frame of one solid colour: no edges, no texture (the variance of the
\* Laplacian is 0); p stands for its pixels and b is its mean gray level.
SolidFrame(p, b) == [pix |-> p, edge |-> 0, sharp |-> 0, bright |-> b]

SolidColours ==
    {SolidFrame(20, 20), SolidFrame(50, 50), SolidFrame(60, 50),
     SolidFrame(240, 240)}

\* A 3-second video at 30 fps (90 frames): one solid colour before frame 45
\* and a different solid colour from frame 45 on.
IsSceneInput(v) ==
    \E c1 \in SolidColours, c2 \in SolidColours :
        /\ c1 # c2
        /\ v = MakeVideo(30, 90, c1, c1, c2, 45, 45, FALSE)

NoResult == [kind |-> "none", msg |-> <<>>, frames |-> <<>>]

\* The concurrent invocation B before it starts. Its kind says how it ends
\* when it runs alone: "write_fails" (its bytes exceed the whole disk),
\* "unopenable" (its bytes are no video), "rejected" (its video is too
\* short) or "good" (it returns its frames).
OtherKinds == {"write_fails", "unopenable", "rejected", "good"}

\* The environments of one call: the temp directory is empty or full.
Environments == {<<TRUE, DiskBlocks>>, <<TRUE, 0>>}

\* The temp directory before the first call.
InitDisk ==
    \E env \in Environments : tmp_ok = env[1] /\ disk_free = env[2]

NewOther(k, start) ==
    [kind |-> k, pc |-> start, file |-> 0, path |-> 0, cap |-> "none",
     cap_bytes |-> "",
     exc |-> "",
     result |-> [kind |-> "none", msg |-> "", frames |-> ""]]

\* The state of the locals and of the file system before the first call.
InitLocals ==
    /\ files = {}
    /\ file_bytes = [n \in {} |-> ""]
    /\ file_size = [n \in {} |-> 0]
    /\ held = [n \in {} |-> 0]
    /\ cap_bytes = ""
    /\ names_used = 0
    /\ temp_file = 0
    /\ temp_video_path = 0
    /\ cap = "none"
    /\ fps = -1 /\ total_frames = -1 /\ duration = <<0, 1>>
    /\ start_frame = -1 /\ end_frame = -1
    /\ frames_data = <<>>
    /\ reads = 0
    /\ motion_scores = <<>>
    /\ peak_motion_idx = -1 /\ peak_frame_idx = -1
    /\ f1_idx = -1 /\ f2_idx = -1 /\ f4_idx = -1 /\ f5_idx = -1
    /\ frames = <<>>
    /\ quality_checked_frames = <<>>
    /\ exc = ""
    /\ result = NoResult
    /\ pc = "create"
    /\ run = 1
    /\ prev_result = [result |-> NoResult, positions |-> <<>>]

\* No analysis of the frames has been returned yet.
NoAnalysis == [fallback |-> FALSE, empty |-> TRUE, message |-> ""]

\* analyze_video_sequence_with_gemini is not being called.
GeminiIdle ==
    /\ GEMINI_AVAILABLE = FALSE
    /\ max_retries = 0
    /\ attempt = 0
    /\ attempts_made = <<>>
    /\ analysis = NoAnalysis
    /\ analysis_pc = "idle"

\* A call of extract_keyframes_from_video starts.
InitCall == InitDisk /\ InitLocals /\ GeminiIdle

\* One invocation; no other invocation runs.
Init ==
    /\ IsInput(video_bytes)
    /\ other = NewOther("good", "idle")
    /\ InitCall

\* ------------------------------------------------- ingest (lines 253-296)

\* A temporary file named after the number of the call in progress.
FreshName_percall == run

\* The name tempfile.NamedTemporaryFile gives the new file: one never used.
FreshName == names_used + 1

\* The bytes invocation B was called with, by its kind.
OtherBytes(k) ==
    IF k = "unopenable" THEN NotAVideo
    ELSE IF k = "write_fails" THEN RandomBytes(DiskBlocks + BufferSize + 1)
    ELSE IF k = "rejected"
    THEN MakeVideo(3, 5, FrameD, FrameD, FrameD, 0, 0, FALSE)
    ELSE MakeVideo(3, 6, FrameD, FrameE, FrameD, 2, 3, FALSE)

\* The bytes a temp file holds, by the tag of who wrote them.
BytesOf(tag) == IF tag = "B" THEN OtherBytes(other.kind) ELSE video_bytes

\* The file system after name is created and tag's bytes are written to it.
WriteFile(fb, name, tag) ==
    [n \in (DOMAIN fb) \cup {name} |-> IF n = name THEN tag ELSE fb[n]]

\* Whose bytes a file of n blocks holds: tag's, once all size blocks of
\* them are in it.
Holds(tag, size, n) == IF n = size THEN tag ELSE ""

\* The blocks of the size written to temp_file that the disk does not hold
\* yet: those the writer still has to hand over, or keeps in its buffer.
Remaining(size, name) == size - file_size[name]

\* One write(2) of the buffered writer on the file name, of the blocks that
\* remain of tag's size blocks: the disk takes what it has room for.
RawWrite(name, tag, size) ==
    LET n == Min(Remaining(size, name), disk_free)
    IN  /\ file_size' = [file_size EXCEPT ![name] = @ + n]
        /\ file_bytes' = [file_bytes EXCEPT
                             ![name] = Holds(tag, size, file_size[name] + n)]
        /\ disk_free' = disk_free - n

\* The file system after os.unlink(name).
RemoveFile(fb, name) == [n \in (DOMAIN fb) \ {name} |-> fb[n]]

\* cv2.VideoCapture(name) can decode the file: it exists and holds a video.
\* (IsOpened is defined below; this is the file-system half of the test.)
HoldsBytes(name) == name \in files /\ file_bytes[name] # ""

\* The bytes the open capture decodes.
Decoded == BytesOf(cap_bytes)

\* Variant: the isOpened() check is missing.
IsOpened_unchecked(v) == TRUE

\* cap.isOpened() of a capture made from the bytes v.
IsOpened(v) == v.valid

\* Variant: an unreported fps gives duration 0.
Duration_zero(f, n) == IF f > 0 THEN <<n, f>> ELSE <<0, 1>>

\* duration = total_frames / fps if fps > 0 else 3.0, as <<num, den>>.
Duration(f, n) == IF f > 0 THEN <<n, f>> ELSE <<3, 1>>

\* Variant: duration <= 2.0 is rejected.
TooShort_le(d) == d[1] <= 2 * d[2]

\* duration < 2.0
TooShort(d) == d[1] < 2 * d[2]

\* start_frame = int(analysis_start * fps), analysis_start = 0.2
StartFrame(f) == IntTenths(2, f)

\* Variant: an unreported fps counts as 1 frame per second.
EndFrame_nominal(d, f) ==
    Trunc((10 * d[1] - 3 * d[2]) * Max(f, 1), 10 * d[2])

\* Variant: the window runs to the end of the video.
EndFrame_untrimmed(d, f) == Trunc(d[1] * f, d[2])

\* analysis_end = duration - 0.3; end_frame = int(analysis_end * fps), in
\* doubles: the product can fall just below the integer the exact
\* arithmetic gives (10 fps, 23 frames: 19.999999999999996).
EndFrame(d, f) ==
    FloatInt(FloatMul(FloatSub(FloatDiv(d[1], d[2]), FloatDiv(3, 10)), f))

\* cap.read() after cap.set(CAP_PROP_POS_FRAMES, i): ret
ReadRet(i) ==
    /\ i \in 0..(Decoded.total - 1)
    /\ i \notin Decoded.unreadable

\* The loop of lines 289-293 from frame_idx = i: the list appended.
RECURSIVE ReadWindow(_, _)
ReadWindow(i, e) ==
    IF i >= e THEN <<>>
    ELSE (IF ReadRet(i) THEN << <<i, Decoded.frames[i]>> >> ELSE <<>>)
         \o ReadWindow(i + 1, e)

\* Variant: four frames are accepted.
NotEnoughFrames_lt4(fd) == Len(fd) < 4

\* Variant: five frames are rejected.
NotEnoughFrames_le5(fd) == Len(fd) <= 5

\* len(frames_data) < 5
NotEnoughFrames(fd) == Len(fd) < 5

\* ------------------------------------------- motion scoring (lines 300-327)

\* The frame at window position i (0-based, as in the code).
FrameAt(fd, i) == fd[i + 1][2]
\* Its absolute frame index.
IndexAt(fd, i) == fd[i + 1][1]

\* np.sum(cv2.absdiff(a, b))
PixelDiff(a, b) == Abs(a.pix - b.pix)
\* np.sum(cv2.absdiff(Canny(gray(a)), Canny(gray(b))))
EdgeDiff(a, b) == Abs(a.edge - b.edge)

\* Variant: the score also counts the pixels of the frame itself.
CombinedScore_own(fd, i) ==
    PixelDiff(FrameAt(fd, i - 1), FrameAt(fd, i))
    + PixelDiff(FrameAt(fd, i), FrameAt(fd, i + 1))
    + FrameAt(fd, i).pix

\* combined_score of window position i
CombinedScore(fd, i) ==
    PixelDiff(FrameAt(fd, i - 1), FrameAt(fd, i))
    + PixelDiff(FrameAt(fd, i), FrameAt(fd, i + 1))
    + EdgeDiff(FrameAt(fd, i - 1), FrameAt(fd, i))
    + EdgeDiff(FrameAt(fd, i), FrameAt(fd, i + 1))

\* Variant: the loop stops one position early, for i in range(1, len - 2).
RECURSIVE ScoreLoop_short(_, _)
ScoreLoop_short(fd, i) ==
    IF i >= Len(fd) - 2 THEN <<>>
    ELSE << <<i, CombinedScore(fd, i), IndexAt(fd, i)>> >> \o ScoreLoop_short(fd, i + 1)

\* for i in range(1, len(frames_data) - 1): motion_scores.append(...)
RECURSIVE ScoreLoop(_, _)
ScoreLoop(fd, i) ==
    IF i >= Len(fd) - 1 THEN <<>>
    ELSE << <<i, CombinedScore(fd, i), IndexAt(fd, i)>> >> \o ScoreLoop(fd, i + 1)

\* ---------------------------------------------- peak (lines 329-332)

\* Variant: reverse=True is missing, the smaller score comes first.
ComesBefore_asc(s, j, i) ==
    \/ s[j][2] < s[i][2]
    \/ s[j][2] = s[i][2] /\ j < i

\* Variant: among equal scores the entry computed later comes first.
ComesBefore_tieslast(s, j, i) ==
    \/ s[j][2] > s[i][2]
    \/ s[j][2] = s[i][2] /\ j > i

\* Entry j of the list stands before entry i once the list is sorted by
\* key x[1] with reverse=True: the larger score first, and entries of equal
\* score in the order they had (list.sort is stable, also when reversed).
ComesBefore(s, j, i) ==
    \/ s[j][2] > s[i][2]
    \/ s[j][2] = s[i][2] /\ j < i

\* Variant: the list is left in the order the scores were computed.
SortDesc_unsorted(s) == s

\* motion_scores.sort(key=lambda x: x[1], reverse=True): place k holds the
\* entry that k - 1 entries stand before.
SortDesc(s) ==
    [k \in 1..Len(s) |->
        s[CHOOSE i \in 1..Len(s) :
            Cardinality({j \in 1..Len(s) : ComesBefore(s, j, i)}) = k - 1]]

\* Variant: the order of entries of equal score is not fixed, any entry of
\* maximal score can come first.
PeakEntries_anyMax(s) ==
    {x \in {s[j] : j \in 1..Len(s)} : \A j \in 1..Len(s) : s[j][2] <= x[2]}

\* Variant: the entry taken is the last of the sorted list.
PeakEntries_last(s) == {SortDesc(s)[Len(s)]}

\* motion_scores[0] after the sort, as the set of entries it can be: the
\* sort is stable and deterministic, so it is one entry.
PeakEntries(s) == {SortDesc(s)[1]}

\* ------------------------------------------- selection (lines 336-360)

\* f1_idx = max(0, int(len(frames_data) * 0.1))
F1Idx(L) == Max(0, IntTenths(1, L))

\* Variant: the F2 offset is added to the peak.
F2Idx_after(peak, f, L) == Min(Max(0, peak + IntTenths(3, f)), L - 1)

\* f2_idx = min(max(0, peak - int(0.3 * fps)), len(frames_data) - 1)
F2Idx(peak, f, L) == Min(Max(0, peak - IntTenths(3, f)), L - 1)

\* Variant: the F4 target is not clamped to the window.
F4Idx_unclamped(peak, f, L) == peak + IntTenths(3, f)

\* f4_idx = min(len(frames_data) - 1, peak + int(0.3 * fps))
F4Idx(peak, f, L) == Min(L - 1, peak + IntTenths(3, f))

\* Variant: F5 is the last frame of the window.
F5Idx_last(L) == L - 1

\* f5_idx = min(len(frames_data) - 1, int(len(frames_data) * 0.9))
F5Idx(L) == Min(L - 1, IntTenths(9, L))

\* Variant: a position selected for two roles is kept once.
FramesList_dedup(p1, p2, p3, p4, p5) ==
    LET s == <<p1, p2, p3, p4, p5>>
        firsts == {k \in 1..5 : \A j \in 1..(k - 1) : s[j] # s[k]}
        nth[n \in 1..Cardinality(firsts)] ==
            CHOOSE k \in firsts : Cardinality({j \in firsts : j < k}) = n - 1
    IN [n \in 1..Cardinality(firsts) |-> s[nth[n]]]

\* Variant: the action and post-action frames are listed in the other order.
FramesList_swapped(p1, p2, p3, p4, p5) == <<p1, p2, p4, p3, p5>>

\* frames = [f1, f2, f3, f4, f5], as window positions
FramesList(p1, p2, p3, p4, p5) == <<p1, p2, p3, p4, p5>>

\* --------------------------------------- quality check (lines 359-409)

min_sharpness == 100
min_brightness == 30
max_brightness == 220

\* cv2.Laplacian(gray, cv2.CV_64F).var()
Sharpness(frame) == frame.sharp
\* np.mean(gray)
Brightness(frame) == frame.bright

\* Variant: a frame on a threshold is poor as well.
PoorQuality_inclusive(frame) ==
    \/ Sharpness(frame) <= min_sharpness
    \/ Brightness(frame) <= min_brightness
    \/ Brightness(frame) >= max_brightness

\* Line 381: the frame quality is poor.
PoorQuality(frame) ==
    \/ Sharpness(frame) < min_sharpness
    \/ Brightness(frame) < min_brightness
    \/ Brightness(frame) > max_brightness

\* Lines 399-400: a search candidate satisfies the thresholds.
CandidateOk(frame) ==
    /\ Sharpness(frame) >= min_sharpness
    /\ min_brightness <= Brightness(frame)
    /\ Brightness(frame) <= max_brightness

\* sharpness + brightness
QualityScore(frame) == Sharpness(frame) + Brightness(frame)

\* search_range = int(0.2 * fps)
SearchRange(f) == IntTenths(2, f)

\* The conditional chain of lines 389-390: the target position of role i.
TargetIdx(i) ==
    IF i = 0 THEN f1_idx
    ELSE IF i = 1 THEN f2_idx
    ELSE IF i = 2 THEN peak_motion_idx
    ELSE IF i = 3 THEN f4_idx
    ELSE f5_idx

\* The centre of the search of role i: frames_data[<target>][0].
SearchCentre(fd, i) == IndexAt(fd, TargetIdx(i))

\* start_search = max(0, frames_data[...][0] - search_range)
StartSearch(fd, i, f) == Max(0, SearchCentre(fd, i) - SearchRange(f))

\* end_search = min(len(frames_data) - 1, frames_data[...][0] + search_range)
EndSearch(fd, i, f) == Min(Len(fd) - 1, SearchCentre(fd, i) + SearchRange(f))

\* Variant: a candidate of higher score is taken whether or not it
\* satisfies the thresholds.
Better_anyScore(fd, j, best_score) ==
    /\ j < Len(fd)
    /\ QualityScore(FrameAt(fd, j)) > best_score

\* Lines 402-404: the candidate at position j replaces the best so far.
Better(fd, j, best_score) ==
    /\ j < Len(fd)
    /\ CandidateOk(FrameAt(fd, j))
    /\ QualityScore(FrameAt(fd, j)) > best_score

\* for search_idx in range(start_search, end_search + 1), from search_idx = j:
\* the position of best_frame when the loop ends.
RECURSIVE SearchLoop(_, _, _, _, _)
SearchLoop(fd, j, e, best, best_score) ==
    IF j > e THEN best
    ELSE IF Better(fd, j, best_score)
         THEN SearchLoop(fd, j + 1, e, j, QualityScore(FrameAt(fd, j)))
         ELSE SearchLoop(fd, j + 1, e, best, best_score)

\* One iteration of the loop of line 363 for role i and its target position
\* pos: the window position of the frame appended to quality_checked_frames.
CheckedFrame(fd, i, pos, f) ==
    IF PoorQuality(FrameAt(fd, pos))
    THEN SearchLoop(fd, StartSearch(fd, i, f), EndSearch(fd, i, f),
                    pos, QualityScore(FrameAt(fd, pos)))
    ELSE pos

\* ------------------------------------------------------------- the steps

\* Line 255: tempfile.NamedTemporaryFile creates an empty file under a name
\* never used.
CreateTemp ==
    /\ pc = "create"
    /\ IF ~tmp_ok
       THEN /\ UNCHANGED fs
            /\ pc' = "except"
            /\ exc' = "Permission denied"
       ELSE /\ files' = files \cup {FreshName}
            /\ names_used' = names_used + 1
            /\ file_bytes' = WriteFile(file_bytes, FreshName,
                                       Holds("A", video_bytes.size, 0))
            /\ file_size' = WriteFile(file_size, FreshName, 0)
            /\ temp_file' = FreshName
            /\ UNCHANGED <<held, disk_free, temp_video_path>>
            /\ pc' = "write"
            /\ exc' = exc
    /\ UNCHANGED <<io, cap, cap_bytes, props, window, motion_scores, selection,
                   quality_checked_frames, result, runs>>
    /\ UNCHANGED gemini

\* Line 256: temp_file.write(video_bytes), one turn of the writer's loop.
\* While more than a buffer remains it hands what remains to the disk in
\* one write(2), which raises when the disk is full; what remains then fits
\* the buffer and is kept there. When the write raises, leaving the with
\* block closes the file with an empty buffer.
WriteTemp ==
    /\ pc = "write"
    /\ IF Remaining(video_bytes.size, temp_file) <= BufferSize
       THEN /\ UNCHANGED fs
            /\ pc' = "bind"
            /\ exc' = exc
       ELSE IF disk_free = 0
       THEN /\ UNCHANGED fs
            /\ pc' = "except"
            /\ exc' = "No space left on device"
       ELSE /\ RawWrite(temp_file, "A", video_bytes.size)
            /\ UNCHANGED <<files, held, names_used, temp_file, temp_video_path>>
            /\ pc' = "write"
            /\ exc' = exc
    /\ UNCHANGED <<io, cap, cap_bytes, props, window, motion_scores, selection,
                   quality_checked_frames, result, runs>>
    /\ UNCHANGED gemini

\* Line 257: temp_video_path = temp_file.name
BindPath ==
    /\ pc = "bind"
    /\ temp_video_path' = temp_file
    /\ pc' = "close"
    /\ UNCHANGED <<io, files, file_bytes, file_size, held, disk_free, names_used,
                   temp_file, cap, cap_bytes, props, window, motion_scores,
                   selection, quality_checked_frames, exc, result, runs>>
    /\ UNCHANGED gemini

\* Leaving the with block of line 255 closes temp_file: the blocks in the
\* buffer are flushed to the disk, one write(2) a turn, which raises when the
\* disk is full; with the buffer empty the file is closed.
CloseTemp ==
    /\ pc = "close"
    /\ IF Remaining(video_bytes.size, temp_file) = 0
       THEN /\ UNCHANGED fs
            /\ pc' = "open"
            /\ exc' = exc
       ELSE IF disk_free = 0
       THEN /\ UNCHANGED fs
            /\ pc' = "except"
            /\ exc' = "No space left on device"
       ELSE /\ RawWrite(temp_file, "A", video_bytes.size)
            /\ UNCHANGED <<files, held, names_used, temp_file, temp_video_path>>
            /\ pc' = "close"
            /\ exc' = exc
    /\ UNCHANGED <<io, cap, cap_bytes, props, window, motion_scores, selection,
                   quality_checked_frames, result, runs>>
    /\ UNCHANGED gemini

\* Lines 260-262: open the capture.
OpenVideo ==
    /\ pc = "open"
    /\ IF /\ HoldsBytes(temp_video_path)
          /\ IsOpened(BytesOf(file_bytes[temp_video_path]))
       THEN /\ cap' = "open"
            /\ cap_bytes' = file_bytes[temp_video_path]
            /\ pc' = "props"
            /\ exc' = exc
       ELSE /\ cap' = "closed"
            /\ cap_bytes' = cap_bytes
            /\ pc' = "except"
            /\ exc' = "Could not open video file"
    /\ UNCHANGED <<io, fs, props, window, motion_scores, selection,
                   quality_checked_frames, result, runs>>
    /\ UNCHANGED gemini

\* Lines 265-267: the stream's properties.
GetProps ==
    /\ pc = "props"
    /\ fps' = Decoded.fps
    /\ total_frames' = Decoded.total
    /\ duration' = Duration(Decoded.fps, Decoded.total)
    /\ pc' = "check"
    /\ UNCHANGED <<io, fs, cap, cap_bytes, window, motion_scores, selection,
                   quality_checked_frames, exc, result, runs>>
    /\ UNCHANGED gemini

\* Lines 270-283: the minimum duration, then the analysis window.
CheckDuration ==
    /\ pc = "check"
    /\ IF TooShort(duration)
       THEN /\ pc' = "except"
            /\ exc' = "Video too short - minimum 2 seconds required for proper disposal verification"
            /\ UNCHANGED <<start_frame, end_frame>>
       ELSE /\ start_frame' = StartFrame(fps)
            /\ end_frame' = EndFrame(duration, fps)
            /\ pc' = "read"
            /\ exc' = exc
    /\ UNCHANGED <<io, fs, cap, cap_bytes, props, frames_data, reads, motion_scores,
                   selection, quality_checked_frames, result, runs>>
    /\ UNCHANGED gemini

\* Lines 288-296: read the frames of the window, then count them.
ReadFrames ==
    /\ pc = "read"
    /\ frames_data' = ReadWindow(start_frame, end_frame)
    /\ reads' = reads + Max(0, end_frame - start_frame)
    /\ IF NotEnoughFrames(frames_data')
       THEN /\ pc' = "except"
            /\ exc' = "Not enough frames for analysis"
       ELSE /\ pc' = "score"
            /\ exc' = exc
    /\ UNCHANGED <<io, fs, cap, cap_bytes, props, start_frame, end_frame, motion_scores,
                   selection, quality_checked_frames, result, runs>>
    /\ UNCHANGED gemini

\* Lines 300-327: one combined score per interior window position.
ScoreMotion ==
    /\ pc = "score"
    /\ motion_scores' = ScoreLoop(frames_data, 1)
    /\ pc' = "peak"
    /\ UNCHANGED <<io, fs, cap, cap_bytes, props, window, selection,
                   quality_checked_frames, exc, result, runs>>
    /\ UNCHANGED gemini

\* Lines 329-332: sort by descending score and take the first entry.
FindPeak ==
    /\ pc = "peak"
    /\ motion_scores' = SortDesc(motion_scores)
    /\ IF motion_scores = <<>>
       THEN /\ pc' = "except"
            /\ exc' = "list index out of range"
            /\ UNCHANGED <<peak_motion_idx, peak_frame_idx>>
       ELSE /\ \E top \in PeakEntries(motion_scores) :
                  /\ peak_motion_idx' = top[1]
                  /\ peak_frame_idx' = top[3]
            /\ pc' = "select"
            /\ exc' = exc
    /\ UNCHANGED <<io, fs, cap, cap_bytes, props, window, f1_idx, f2_idx, f4_idx, f5_idx,
                   frames, quality_checked_frames, result, runs>>
    /\ UNCHANGED gemini

\* Lines 336-361: the five target positions and the frames list.
SelectFrames ==
    /\ pc = "select"
    /\ f1_idx' = F1Idx(Len(frames_data))
    /\ f2_idx' = F2Idx(peak_motion_idx, fps, Len(frames_data))
    /\ f4_idx' = F4Idx(peak_motion_idx, fps, Len(frames_data))
    /\ f5_idx' = F5Idx(Len(frames_data))
    /\ frames' = FramesList(f1_idx', f2_idx', peak_motion_idx, f4_idx', f5_idx')
    /\ quality_checked_frames' = <<>>
    /\ pc' = "quality"
    /\ UNCHANGED <<io, fs, cap, cap_bytes, props, window, motion_scores,
                   peak_motion_idx, peak_frame_idx, exc, result, runs>>
    /\ UNCHANGED gemini

\* Lines 363-409: one iteration of the quality loop, for role
\* i = len(quality_checked_frames).
QualityCheck ==
    /\ pc = "quality"
    /\ Len(quality_checked_frames) < Len(frames)
    /\ LET i == Len(quality_checked_frames)
       IN quality_checked_frames' =
              Append(quality_checked_frames,
                     CheckedFrame(frames_data, i, frames[i + 1], fps))
    /\ pc' = IF Len(quality_checked_frames') = Len(frames)
             THEN "release" ELSE "quality"
    /\ UNCHANGED <<io, fs, cap, cap_bytes, props, window, motion_scores, selection,
                   exc, result, runs>>
    /\ UNCHANGED gemini

\* Line 411: cap.release()
Release ==
    /\ pc = "release"
    /\ cap' = "released"
    /\ pc' = "unlink"
    /\ UNCHANGED <<io, fs, cap_bytes, props, window, motion_scores, selection,
                   quality_checked_frames, exc, result, runs>>
    /\ UNCHANGED gemini

\* Line 414: os.unlink(temp_video_path)
Unlink ==
    /\ pc = "unlink"
    /\ UNCHANGED held
    /\ IF temp_video_path \in files
       THEN /\ files' = files \ {temp_video_path}
            /\ file_bytes' = RemoveFile(file_bytes, temp_video_path)
            /\ file_size' = RemoveFile(file_size, temp_video_path)
            /\ disk_free' = disk_free + file_size[temp_video_path]
            /\ pc' = "return"
            /\ exc' = exc
       ELSE /\ UNCHANGED <<files, file_bytes, file_size, disk_free>>
            /\ pc' = "except"
            /\ exc' = "No such file or directory"
    /\ UNCHANGED <<io, names_used, temp_file, temp_video_path, cap, cap_bytes, props, window,
                   motion_scores, selection, quality_checked_frames,
                   result, runs>>
    /\ UNCHANGED gemini

\* Variant: a window position already returned for an earlier role is left
\* out of the list.
ReturnedFrames_distinct(fd, qcf) ==
    LET keep == {k \in 1..Len(qcf) : \A j \in 1..(k - 1) : qcf[j] # qcf[k]}
        nth(n) == CHOOSE k \in keep : Cardinality({j \in keep : j < k}) = n - 1
    IN  [n \in 1..Cardinality(keep) |-> FrameAt(fd, qcf[nth(n)])]

\* The list of frames handed to the caller.
ReturnedFrames(fd, qcf) == [k \in 1..Len(qcf) |-> FrameAt(fd, qcf[k])]

\* Line 417: return quality_checked_frames
Return ==
    /\ pc = "return"
    /\ result' = [kind |-> "returned", msg |-> <<>>,
                  frames |-> ReturnedFrames(frames_data, quality_checked_frames)]
    /\ pc' = "done"
    /\ UNCHANGED <<io, fs, cap, cap_bytes, props, window, motion_scores, selection,
                   quality_checked_frames, exc, runs>>
    /\ UNCHANGED gemini

\* Line 421: the handler removes the temp file.
HandlerUnlinks ==
    /\ temp_video_path # 0
    /\ temp_video_path \in files

\* The function g extended by name |-> n.
Keep(g, name, n) ==
    [x \in (DOMAIN g) \cup {name} |-> IF x = name THEN n ELSE g[x]]

\* Lines 419-423: the handler of every exception raised in the body. The
\* capture is released on line 411 only: after a failure later than the
\* open, os.unlink removes the name of a file the capture still has open,
\* and its blocks stay allocated.
Except ==
    /\ pc = "except"
    /\ files' = IF HandlerUnlinks THEN files \ {temp_video_path} ELSE files
    /\ file_bytes' = IF HandlerUnlinks
                     THEN RemoveFile(file_bytes, temp_video_path)
                     ELSE file_bytes
    /\ file_size' = IF HandlerUnlinks
                    THEN RemoveFile(file_size, temp_video_path)
                    ELSE file_size
    /\ held' = IF HandlerUnlinks /\ cap = "open"
               THEN Keep(held, temp_video_path, file_size[temp_video_path])
               ELSE held
    /\ disk_free' = IF HandlerUnlinks /\ cap # "open"
                    THEN disk_free + file_size[temp_video_path]
                    ELSE disk_free
    /\ result' = [kind |-> "raised",
                  msg |-> <<"Video processing failed", exc>>,
                  frames |-> <<>>]
    /\ pc' = "done"
    /\ UNCHANGED <<io, names_used, temp_file, temp_video_path, cap, cap_bytes, props, window,
                   motion_scores, selection, quality_checked_frames, exc, runs>>
    /\ UNCHANGED gemini

\* The caller drops the exception line 423 raised: the frame in its
\* traceback and the capture in the frame's locals are freed, the capture
\* closes the unlinked file and the disk takes its blocks back.
DropException ==
    /\ pc = "done"
    /\ temp_video_path \in DOMAIN held
    /\ disk_free' = disk_free + held[temp_video_path]
    /\ held' = RemoveFile(held, temp_video_path)
    /\ cap' = "released"
    /\ UNCHANGED <<io, files, file_bytes, file_size, names_used, temp_file,
                   temp_video_path, cap_bytes, props, window, motion_scores,
                   selection, quality_checked_frames, exc, result, pc, runs>>
    /\ UNCHANGED gemini

\* A second invocation on the same bytes: its locals are unbound again, the
\* file system is what the first invocation left, the blocks its capture
\* holds included when the caller still has its exception.
CallAgain ==
    /\ pc = "done"
    /\ run = 1
    /\ run' = 2
    /\ prev_result' = [result |-> result, positions |-> quality_checked_frames]
    /\ temp_file' = 0
    /\ temp_video_path' = 0
    /\ cap' = "none"
    /\ cap_bytes' = ""
    /\ fps' = -1 /\ total_frames' = -1 /\ duration' = <<0, 1>>
    /\ start_frame' = -1 /\ end_frame' = -1
    /\ frames_data' = <<>>
    /\ reads' = 0
    /\ motion_scores' = <<>>
    /\ peak_motion_idx' = -1 /\ peak_frame_idx' = -1
    /\ f1_idx' = -1 /\ f2_idx' = -1 /\ f4_idx' = -1 /\ f5_idx' = -1
    /\ frames' = <<>>
    /\ quality_checked_frames' = <<>>
    /\ exc' = ""
    /\ result' = NoResult
    /\ pc' = "create"
    /\ UNCHANGED <<io, files, file_bytes, file_size, held, disk_free,
                   names_used, other>>
    /\ UNCHANGED gemini

Next ==
    \/ CreateTemp
    \/ WriteTemp
    \/ BindPath
    \/ CloseTemp
    \/ OpenVideo
    \/ GetProps
    \/ CheckDuration
    \/ ReadFrames
    \/ ScoreMotion
    \/ FindPeak
    \/ SelectFrames
    \/ QualityCheck
    \/ Release
    \/ Unlink
    \/ Return
    \/ Except

Spec == Init /\ [][Next]_vars

\* Two invocations in sequence on the same bytes, by a caller that drops
\* the exception of the first before it calls again, or keeps it.
NextTwice == Next \/ DropException \/ CallAgain

\* One call on the colour-change scene.
InitScene ==
    /\ IsSceneInput(video_bytes)
    /\ other = NewOther("good", "idle")
    /\ InitCall

SpecScene == InitScene /\ [][Next]_vars

\* Inputs on which the clamps of the F2 and F4 targets act: 15 frames at
\* 7 fps (window of up to 11 frames, offsets int(2.1) = 2 and
\* int(1.4) = 1), and 7 frames at 3 fps (both offsets 0).
IsSelectInput(v) ==
    \E hole \in BOOLEAN, k1 \in FrameKinds, k2 \in FrameKinds, k3 \in FrameKinds :
        \/ \E s \in 0..15 : \E e \in s..15 :
              v = MakeVideo(7, 15, k1, k2, k3, s, e, hole)
        \/ \E s \in 0..7 : \E e \in s..7 :
              v = MakeVideo(3, 7, k1, k2, k3, s, e, hole)

\* One call on such an input.
InitSelect ==
    /\ IsSelectInput(video_bytes)
    /\ other = NewOther("good", "idle")
    /\ InitCall

SpecSelect == InitSelect /\ [][Next]_vars

\* Inputs at 10 fps, where 0.3 * fps is a whole number of frames: 23 frames
\* (the double (2.3 - 0.3) * 10 is 19.999999999999996) and 24 frames (the
\* double (2.4 - 0.3) * 10 is 21.0).
IsRateInput(v) ==
    \E n \in {23, 24}, hole \in BOOLEAN, k2 \in FrameKinds :
        \E s \in 0..n : \E e \in s..n :
            v = MakeVideo(10, n, FrameA, k2, FrameD, s, e, hole)

\* One call on such an input.
InitRate ==
    /\ IsRateInput(video_bytes)
    /\ other = NewOther("good", "idle")
    /\ InitCall

SpecRate == InitRate /\ [][Next]_vars

\* ------------------------------------- a concurrent invocation (243-423)

\* Invocation B runs the same function on its own bytes while invocation A
\* makes its second call. Its steps on the shared file system are those of
\* A; what it computes from the frames it decodes (lines 265-409) is one
\* step, whose outcome is given by the bytes it decodes.

\* Line 255 in B.
OtherCreate ==
    /\ run = 2
    /\ other.pc = "create"
    /\ IF ~tmp_ok
       THEN /\ UNCHANGED <<files, file_bytes, file_size, names_used>>
            /\ other' = [other EXCEPT !.pc = "except",
                                      !.exc = "Permission denied"]
       ELSE /\ files' = files \cup {FreshName}
            /\ names_used' = names_used + 1
            /\ file_bytes' = WriteFile(file_bytes, FreshName,
                                       Holds("B", OtherBytes(other.kind).size, 0))
            /\ file_size' = WriteFile(file_size, FreshName, 0)
            /\ other' = [other EXCEPT !.file = FreshName, !.pc = "write"]
    /\ UNCHANGED <<held, disk_free>>
    /\ UNCHANGED <<io, temp_file, temp_video_path, cap, cap_bytes, props,
                   window, motion_scores, selection, quality_checked_frames,
                   exc, result, pc, run, prev_result>>
    /\ UNCHANGED gemini

\* Line 256 in B, one turn of the writer's loop.
OtherWrite ==
    /\ other.pc = "write"
    /\ IF Remaining(OtherBytes(other.kind).size, other.file) <= BufferSize
       THEN /\ UNCHANGED <<file_bytes, file_size, disk_free>>
            /\ other' = [other EXCEPT !.pc = "bind"]
       ELSE IF disk_free = 0
       THEN /\ UNCHANGED <<file_bytes, file_size, disk_free>>
            /\ other' = [other EXCEPT !.pc = "except",
                                      !.exc = "No space left on device"]
       ELSE /\ RawWrite(other.file, "B", OtherBytes(other.kind).size)
            /\ UNCHANGED other
    /\ UNCHANGED <<files, held, names_used>>
    /\ UNCHANGED <<io, temp_file, temp_video_path, cap, cap_bytes, props,
                   window, motion_scores, selection, quality_checked_frames,
                   exc, result, pc, run, prev_result>>
    /\ UNCHANGED gemini

\* Line 257 in B.
OtherBind ==
    /\ other.pc = "bind"
    /\ other' = [other EXCEPT !.path = other.file, !.pc = "close"]
    /\ UNCHANGED <<files, file_bytes, file_size, held, disk_free, names_used>>
    /\ UNCHANGED <<io, temp_file, temp_video_path, cap, cap_bytes, props,
                   window, motion_scores, selection, quality_checked_frames,
                   exc, result, pc, run, prev_result>>
    /\ UNCHANGED gemini

\* Leaving the with block in B, one turn of the flush.
OtherClose ==
    /\ other.pc = "close"
    /\ IF Remaining(OtherBytes(other.kind).size, other.file) = 0
       THEN /\ UNCHANGED <<file_bytes, file_size, disk_free>>
            /\ other' = [other EXCEPT !.pc = "open"]
       ELSE IF disk_free = 0
       THEN /\ UNCHANGED <<file_bytes, file_size, disk_free>>
            /\ other' = [other EXCEPT !.pc = "except",
                                      !.exc = "No space left on device"]
       ELSE /\ RawWrite(other.file, "B", OtherBytes(other.kind).size)
            /\ UNCHANGED other
    /\ UNCHANGED <<files, held, names_used>>
    /\ UNCHANGED <<io, temp_file, temp_video_path, cap, cap_bytes, props,
                   window, motion_scores, selection, quality_checked_frames,
                   exc, result, pc, run, prev_result>>
    /\ UNCHANGED gemini

\* Lines 260-262 in B.
OtherOpen ==
    /\ other.pc = "open"
    /\ IF /\ HoldsBytes(other.path)
          /\ IsOpened(BytesOf(file_bytes[other.path]))
       THEN other' = [other EXCEPT !.cap = "open",
                                   !.cap_bytes = file_bytes[other.path],
                                   !.pc = "process"]
       ELSE other' = [other EXCEPT !.pc = "except",
                                   !.exc = "Could not open video file"]
    /\ UNCHANGED <<io, fs, cap, cap_bytes, props, window, motion_scores,
                   selection, quality_checked_frames, exc, result, pc, run,
                   prev_result>>
    /\ UNCHANGED gemini

\* Lines 265-409 in B: the too-short check on the bytes it decodes, then
\* the frames it selects from them.
OtherProcess ==
    /\ other.pc = "process"
    /\ LET v == BytesOf(other.cap_bytes)
       IN IF TooShort(Duration(v.fps, v.total))
          THEN other' = [other EXCEPT !.pc = "except", !.exc = "Video too short"]
          ELSE other' = [other EXCEPT !.pc = "release"]
    /\ UNCHANGED <<io, fs, cap, cap_bytes, props, window, motion_scores,
                   selection, quality_checked_frames, exc, result, pc, run,
                   prev_result>>
    /\ UNCHANGED gemini

\* Line 411 in B.
OtherRelease ==
    /\ other.pc = "release"
    /\ other' = [other EXCEPT !.cap = "released", !.pc = "unlink"]
    /\ UNCHANGED <<io, fs, cap, cap_bytes, props, window, motion_scores,
                   selection, quality_checked_frames, exc, result, pc, run,
                   prev_result>>
    /\ UNCHANGED gemini

\* Line 414 in B.
OtherUnlink ==
    /\ other.pc = "unlink"
    /\ UNCHANGED held
    /\ IF other.path \in files
       THEN /\ files' = files \ {other.path}
            /\ file_bytes' = RemoveFile(file_bytes, other.path)
            /\ file_size' = RemoveFile(file_size, other.path)
            /\ disk_free' = disk_free + file_size[other.path]
            /\ other' = [other EXCEPT !.pc = "return"]
       ELSE /\ UNCHANGED <<files, file_bytes, file_size, disk_free>>
            /\ other' = [other EXCEPT !.pc = "except",
                                      !.exc = "No such file or directory"]
    /\ UNCHANGED <<io, names_used, temp_file, temp_video_path, cap, cap_bytes, props,
                   window, motion_scores, selection, quality_checked_frames,
                   exc, result, pc, run, prev_result>>
    /\ UNCHANGED gemini

\* Line 417 in B: it returns the frames selected from the bytes it decoded.
OtherReturn ==
    /\ other.pc = "return"
    /\ other' = [other EXCEPT
                    !.pc = "done",
                    !.result = [kind |-> "returned", msg |-> "",
                                frames |-> other.cap_bytes]]
    /\ UNCHANGED <<io, fs, cap, cap_bytes, props, window, motion_scores,
                   selection, quality_checked_frames, exc, result, pc, run,
                   prev_result>>
    /\ UNCHANGED gemini

\* Lines 419-423 in B.
OtherExcept ==
    /\ other.pc = "except"
    /\ LET unlinks == other.path # 0 /\ other.path \in files
       IN /\ files' = IF unlinks THEN files \ {other.path} ELSE files
          /\ file_bytes' = IF unlinks
                           THEN RemoveFile(file_bytes, other.path)
                           ELSE file_bytes
          /\ file_size' = IF unlinks
                          THEN RemoveFile(file_size, other.path)
                          ELSE file_size
          /\ held' = IF unlinks /\ other.cap = "open"
                     THEN Keep(held, other.path, file_size[other.path])
                     ELSE held
          /\ disk_free' = IF unlinks /\ other.cap # "open"
                          THEN disk_free + file_size[other.path]
                          ELSE disk_free
    /\ other' = [other EXCEPT
                    !.pc = "done",
                    !.result = [kind |-> "raised", msg |-> other.exc,
                                frames |-> ""]]
    /\ UNCHANGED <<io, names_used, temp_file, temp_video_path, cap, cap_bytes, props,
                   window, motion_scores, selection, quality_checked_frames,
                   exc, result, pc, run, prev_result>>
    /\ UNCHANGED gemini

\* The caller of B drops the exception B raised.
OtherDrop ==
    /\ other.pc = "done"
    /\ other.path \in DOMAIN held
    /\ disk_free' = disk_free + held[other.path]
    /\ held' = RemoveFile(held, other.path)
    /\ other' = [other EXCEPT !.cap = "released"]
    /\ UNCHANGED <<files, file_bytes, file_size>>
    /\ UNCHANGED <<io, names_used, temp_file, temp_video_path, cap, cap_bytes, props,
                   window, motion_scores, selection, quality_checked_frames,
                   exc, result, pc, run, prev_result>>
    /\ UNCHANGED gemini

\* The inputs of invocation A when B runs beside it: a buffer that is no
\* video, or a 3 fps video of 5 or 6 frames (too short, or a window of 5),
\* in a container that fits the writer's buffer or in one that does not.
IsConcInput(v) ==
    \/ v = NotAVideo
    \/ v = RandomBytes(BufferSize)
    \/ \E n \in {5, 6}, hole \in BOOLEAN, k2 \in FrameKinds :
          \E s \in 0..n : \E e \in s..n : \E sz \in {BufferSize, n + 1} :
              v = Resized(MakeVideo(3, n, FrameA, k2, FrameD, s, e, hole), sz)

\* The temp directory the two invocations share: full, with room for the
\* larger of the two files, with room for both, or not accepting files.
ConcEnvironments ==
    LET room == OtherBytes("good").size
    IN  {<<TRUE, 0>>, <<TRUE, room>>, <<TRUE, 2 * room>>, <<FALSE, 2 * room>>}

\* A calls once alone; its second call and B's call then run concurrently.
InitConc ==
    /\ IsConcInput(video_bytes)
    /\ \E k \in OtherKinds : other = NewOther(k, "create")
    /\ \E env \in ConcEnvironments : tmp_ok = env[1] /\ disk_free = env[2]
    /\ InitLocals
    /\ GeminiIdle

NextConc ==
    \/ NextTwice
    \/ OtherCreate
    \/ OtherWrite
    \/ OtherBind
    \/ OtherClose
    \/ OtherOpen
    \/ OtherProcess
    \/ OtherRelease
    \/ OtherUnlink
    \/ OtherReturn
    \/ OtherExcept
    \/ OtherDrop

SpecConc == InitConc /\ [][NextConc]_vars

\* Two calls in sequence on the same bytes, no other invocation running, in
\* a temp directory that is full, has room for one file or for two, or
\* accepts no file.
InitRetry ==
    /\ IsConcInput(video_bytes)
    /\ other = NewOther("good", "idle")
    /\ \E env \in ConcEnvironments : tmp_ok = env[1] /\ disk_free = env[2]
    /\ InitLocals
    /\ GeminiIdle

SpecRetry == InitRetry /\ [][NextTwice]_vars

\* ------------------------------------------------------------ properties

\* The invocation has returned its list of frames.
Returned == pc = "done" /\ result.kind = "returned"

\* The invocation has raised the exception with this inner message.
Raised(m) ==
    /\ pc = "done"
    /\ result.kind = "raised"
    /\ result.msg = <<"Video processing failed", m>>
    /\ result.frames = <<>>

\* The target window position of role Fk, k in 1..5.
RoleTarget(k) == <<f1_idx, f2_idx, peak_motion_idx, f4_idx, f5_idx>>[k]

\* The window positions the quality search of role Fk examines.
SearchedFor(k) ==
    {p \in 0..(Len(frames_data) - 1) :
        /\ IndexAt(frames_data, RoleTarget(k)) - IntTenths(2, fps) <= p
        /\ p <= IndexAt(frames_data, RoleTarget(k)) + IntTenths(2, fps)}

\* The interior window positions, the ones that get a motion score.
Interior == 1..(Len(frames_data) - 2)

\* The stream was opened and reports a duration below 2.0 seconds.
DurationBelowTwo == fps > 0 /\ total_frames < 2 * fps

\* C1: when the duration is at least 2.0 s and at least 5 frames were read
\* inside the analysis window, no exception is raised and the call returns
\* exactly 5 frames, slot k holding the frame of role Fk.
C1_FiveFramesOnePerRole ==
    (fps # -1 /\ ~DurationBelowTwo /\ Len(frames_data) >= 5) =>
        /\ exc = ""
        /\ pc = "done" =>
              /\ result.kind = "returned"
              /\ DOMAIN result.frames = 1..5
              /\ DOMAIN quality_checked_frames = 1..5
              /\ \A k \in 1..5 :
                    /\ quality_checked_frames[k] \in 0..(Len(frames_data) - 1)
                    /\ result.frames[k] =
                           FrameAt(frames_data, quality_checked_frames[k])

\* C1 witness: a successful return although the decoder could not read some
\* frame of the window.
C1_Witness ==
    /\ Returned
    /\ Len(frames_data) >= 5
    /\ Len(frames_data) < end_frame - start_frame

\* C2: the output is in role order: the k-th output frame is the target of
\* role Fk, or a passing frame examined by the search run for role Fk after
\* that target failed the thresholds.
C2_RoleOrder ==
    (pc \in {"quality", "release", "unlink", "return", "done"}) =>
        /\ \A k \in 1..Len(quality_checked_frames) :
              \/ quality_checked_frames[k] = RoleTarget(k)
              \/ /\ PoorQuality(FrameAt(frames_data, RoleTarget(k)))
                 /\ quality_checked_frames[k] \in SearchedFor(k)
                 /\ CandidateOk(FrameAt(frames_data, quality_checked_frames[k]))
        /\ Returned =>
              \A k \in 1..5 :
                  result.frames[k] = FrameAt(frames_data, quality_checked_frames[k])

\* C2 witness: a returned list in which some role holds a substitute and the
\* five targets are not all the same position.
C2_Witness ==
    /\ Returned
    /\ \E k \in 1..5 : quality_checked_frames[k] # RoleTarget(k)
    /\ f2_idx # peak_motion_idx
    /\ f4_idx # peak_motion_idx

\* C3 as stated: the combinedScore of the third output frame is the maximum
\* of the interior-window scores.
C3_OutputF3HasMaxScore ==
    Returned =>
        /\ quality_checked_frames[3] \in Interior
        /\ \A i \in Interior :
              CombinedScore(frames_data, i)
                  <= CombinedScore(frames_data, quality_checked_frames[3])

\* C3 amended: the F3 target (the peak position, before quality replacement)
\* has the maximal combinedScore, and the third output frame is that frame
\* whenever it passes the quality thresholds.
C3_PeakTargetHasMaxScore ==
    Returned =>
        /\ peak_motion_idx \in Interior
        /\ \A i \in Interior :
              CombinedScore(frames_data, i)
                  <= CombinedScore(frames_data, peak_motion_idx)
        /\ CandidateOk(FrameAt(frames_data, peak_motion_idx)) =>
              quality_checked_frames[3] = peak_motion_idx

\* C3 witness: a return where the scores differ and the peak frame passes.
C3_Witness ==
    /\ Returned
    /\ CandidateOk(FrameAt(frames_data, peak_motion_idx))
    /\ \E i \in Interior :
          CombinedScore(frames_data, i)
              < CombinedScore(frames_data, peak_motion_idx)

\* C4 as stated: every output frame passes both thresholds, or no frame
\* within int(0.2 * fps) window positions of its role's target does.
C4_QualityInvariant ==
    Returned =>
        \A k \in 1..5 :
            \/ CandidateOk(FrameAt(frames_data, quality_checked_frames[k]))
            \/ \A p \in 0..(Len(frames_data) - 1) :
                  Abs(p - RoleTarget(k)) <= IntTenths(2, fps) =>
                      ~CandidateOk(FrameAt(frames_data, p))

\* C5 as stated: when the call ends, on any path, its temporary file is gone.
C5_TempFileRemoved == pc = "done" => files = {}

\* C6 as stated: a second invocation on the same bytes, with the same
\* decoder behaviour, ends as the first one did: the same error, or the same
\* five window positions and the same five frames, whatever the first left
\* behind.
C6_Deterministic ==
    (run = 2 /\ pc = "done") =>
        /\ result = prev_result.result
        /\ quality_checked_frames = prev_result.positions

\* C7: an opened stream shorter than 2.0 s raises the too-short error before
\* any frame is read and returns no frames; a stream of 2.0 s or more never
\* raises it.
C7_TooShort ==
    LET msg == "Video too short - minimum 2 seconds required for proper disposal verification"
    IN /\ (DurationBelowTwo /\ pc \notin {"props", "check"}) =>
              /\ exc = msg
              /\ reads = 0
              /\ frames_data = <<>>
              /\ start_frame = -1 /\ end_frame = -1
              /\ pc \in {"except", "done"}
              /\ pc = "done" => Raised(msg)
       /\ (fps # -1 /\ ~DurationBelowTwo) => exc # msg

\* C7 witness: a stream one frame short of 2.0 s has been rejected.
C7_Witness ==
    /\ fps > 0
    /\ total_frames = 2 * fps - 1
    /\ pc = "done"
    /\ result.kind = "raised"

\* C8: a byte buffer the decoder cannot open raises the video-open error; no
\* stream property and no frame is read, and no frames are returned.
C8_VideoOpenError ==
    (~video_bytes.valid /\ cap # "none") =>
        /\ exc = "Could not open video file"
        /\ cap = "closed"
        /\ fps = -1 /\ total_frames = -1
        /\ reads = 0
        /\ frames_data = <<>>
        /\ pc \in {"except", "done"}
        /\ pc = "done" => Raised("Could not open video file")

\* C8 witness: the call on a buffer that is no video has ended.
C8_Witness ==
    /\ ~video_bytes.valid
    /\ cap = "closed"
    /\ pc = "done"

\* C9: when fewer than 5 frames are read inside the window, the call raises
\* the insufficient-frames error as "Video processing failed", and nothing
\* is scored or selected.
C9_InsufficientFrames ==
    (end_frame # -1 /\ pc # "read" /\ Len(frames_data) < 5) =>
        /\ exc = "Not enough frames for analysis"
        /\ motion_scores = <<>>
        /\ peak_motion_idx = -1
        /\ frames = <<>>
        /\ quality_checked_frames = <<>>
        /\ pc \in {"except", "done"}
        /\ pc = "done" => Raised("Not enough frames for analysis")

\* C9 witness: the window holds 5 or more frame indices, the decoder could
\* read only 4 of them, and the call has ended.
C9_Witness ==
    /\ end_frame - start_frame >= 5
    /\ Len(frames_data) = 4
    /\ pc = "done"

\* The five-frame window of a stream of exactly 2.0 s, every frame readable.
BoundaryInput ==
    /\ fps > 0
    /\ total_frames = 2 * fps
    /\ end_frame - start_frame = 5
    /\ \A i \in start_frame..(end_frame - 1) : ReadRet(i)

\* C10: for a stream of exactly 2.0 s whose window holds exactly 5 readable
\* frames no error is raised, every index computed for the window is in
\* 0..4, and the call returns 5 frames.
C10_BoundarySucceeds ==
    BoundaryInput =>
        /\ exc = ""
        /\ result.kind # "raised"
        /\ pc \notin {"read", "except"} => Len(frames_data) = 5
        /\ peak_motion_idx # -1 => peak_motion_idx \in 1..3
        /\ frames # <<>> =>
              /\ \A k \in 1..5 : RoleTarget(k) \in 0..4
              /\ \A k \in 1..5 :
                    /\ StartSearch(frames_data, k - 1, fps) >= 0
                    /\ EndSearch(frames_data, k - 1, fps) <= 4
        /\ \A k \in 1..Len(quality_checked_frames) :
              quality_checked_frames[k] \in 0..4
        /\ pc = "done" => (Returned /\ Len(result.frames) = 5)

\* C10 witness: the boundary input has returned.
C10_Witness == BoundaryInput /\ Returned

\* ----------------------------------------------------------- concurrency

\* Invocation A is between its write of the temp file and its own unlink.
HoldsTempFile ==
    /\ temp_video_path # 0
    /\ pc \in {"open", "props", "check", "read", "score", "peak", "select",
               "quality", "release", "unlink"}

\* Invocation B is between its write of the temp file and its own unlink.
OtherHoldsTempFile ==
    /\ other.path # 0
    /\ other.pc \in {"open", "process", "release", "unlink"}

\* The sum of g over the set S.
RECURSIVE BlocksOf(_, _)
BlocksOf(g, S) ==
    IF S = {} THEN 0
    ELSE LET n == CHOOSE x \in S : TRUE IN g[n] + BlocksOf(g, S \ {n})

\* The blocks of the temp directory: free, occupied by a file, or held by a
\* capture that has an unlinked file open.
DiskTotal ==
    disk_free + BlocksOf(file_size, files) + BlocksOf(held, DOMAIN held)

\* The blocks the temp file created under name occupies, unlinked or not.
Own(name) ==
    (IF name \in files THEN file_size[name] ELSE 0)
        + (IF name \in DOMAIN held THEN held[name] ELSE 0)

\* The blocks the two invocations have between them: the free ones and those
\* of their own temp files. Blocks of files that earlier calls leaked, and
\* of unlinked files that captures of earlier calls still have open, are not
\* among them.
Available == disk_free + Own(temp_file) + Own(other.file)

\* The temp directory can hold the temp files of both invocations at once.
RoomForBoth == video_bytes.size + OtherBytes(other.kind).size <= Available

\* The outcome of invocation B when it runs alone in the empty temp
\* directory: lines 255-417 applied in sequence to its own bytes.
OtherAlone(k) ==
    IF ~tmp_ok
    THEN [kind |-> "raised", msg |-> "Permission denied", frames |-> ""]
    ELSE IF OtherBytes(k).size > DiskTotal
    THEN [kind |-> "raised", msg |-> "No space left on device", frames |-> ""]
    ELSE IF ~OtherBytes(k).valid
    THEN [kind |-> "raised", msg |-> "Could not open video file", frames |-> ""]
    ELSE IF 10 * OtherBytes(k).total < 20 * OtherBytes(k).fps
    THEN [kind |-> "raised", msg |-> "Video too short", frames |-> ""]
    ELSE [kind |-> "returned", msg |-> "", frames |-> "B"]

\* C11 as stated: two invocations running concurrently, under every
\* interleaving of their steps, own distinct temp files; neither decodes,
\* overwrites or deletes the other's temp file; and each ends with the
\* outcome it has when it runs alone.
C11_ConcurrentIsolation ==
    /\ (temp_video_path # 0 /\ other.path # 0) => temp_video_path # other.path
    /\ cap_bytes \in {"", "A"}
    /\ other.cap_bytes \in {"", "B"}
    /\ HoldsTempFile =>
          temp_video_path \in files /\ file_bytes[temp_video_path] = "A"
    /\ OtherHoldsTempFile =>
          other.path \in files /\ file_bytes[other.path] = "B"
    /\ (run = 2 /\ pc = "done") => result = prev_result.result
    /\ other.pc = "done" => other.result = OtherAlone(other.kind)

\* The message with which invocation B has raised.
OtherRaised(m) ==
    /\ other.pc = "done"
    /\ other.result = [kind |-> "raised", msg |-> m, frames |-> ""]

\* C11 amended: two invocations running concurrently, under every
\* interleaving of their steps, own distinct temp files, and neither decodes,
\* overwrites or deletes the other's. The free blocks of the temp directory
\* they share: an invocation that ends otherwise than it does alone has
\* raised "No space left on device", and that happens only when the free
\* blocks and the blocks of their own two files together are fewer than the
\* two files need.
C11_IsolationWithRoom ==
    /\ (temp_video_path # 0 /\ other.path # 0) => temp_video_path # other.path
    /\ cap_bytes \in {"", "A"}
    /\ other.cap_bytes \in {"", "B"}
    /\ HoldsTempFile =>
          temp_video_path \in files /\ file_bytes[temp_video_path] = "A"
    /\ OtherHoldsTempFile =>
          other.path \in files /\ file_bytes[other.path] = "B"
    /\ (run = 2 /\ pc = "done" /\ result # prev_result.result) =>
          /\ Raised("No space left on device")
          /\ ~RoomForBoth
    /\ (other.pc = "done" /\ other.result # OtherAlone(other.kind)) =>
          /\ OtherRaised("No space left on device")
          /\ ~RoomForBoth

\* C11 witness: in its second call A is checking frame quality on its own
\* capture while B, its temp file written and opened, is processing its own.
C11_Witness ==
    /\ run = 2
    /\ pc = "quality"
    /\ other.pc = "process"
    /\ HoldsTempFile
    /\ OtherHoldsTempFile
    /\ RoomForBoth

\* ----------------------------------------------------- scenario: no motion

\* The input is a 3-second video whose frames are all readable and all the
\* same picture.
StaticThreeSeconds ==
    /\ video_bytes # NotAVideo
    /\ video_bytes.fps > 0
    /\ video_bytes.total = 3 * video_bytes.fps
    /\ video_bytes.unreadable = {}
    /\ \A i, j \in 0..(video_bytes.total - 1) :
          video_bytes.frames[i] = video_bytes.frames[j]

\* The five roles of a static video: F1 and F5 at the fractional offsets,
\* F3 at the first interior position, F2 and F4 around it; the output is
\* the five targets.
StaticSelection ==
    LET L == Len(frames_data)
        o == (3 * fps) \div 10
    IN  /\ Returned
        /\ DOMAIN result.frames = 1..5
        /\ \A i \in 1..Len(motion_scores) :
              motion_scores[i][2] = motion_scores[1][2]
        /\ f1_idx = L \div 10
        /\ f5_idx = (9 * L) \div 10
        /\ peak_motion_idx = 1
        /\ f2_idx = IF 1 - o < 0 THEN 0 ELSE 1 - o
        /\ f4_idx = IF 1 + o > L - 1 THEN L - 1 ELSE 1 + o
        /\ quality_checked_frames =
               <<f1_idx, f2_idx, peak_motion_idx, f4_idx, f5_idx>>
        /\ \A k \in 1..5 : result.frames[k] = video_bytes.frames[0]

\* C12 as stated: every uniformly static 3-second video returns 5 frames,
\* F1 and F5 at floor(0.10*L) and floor(0.90*L), F2, F3 and F4 derived from
\* the first interior position.
C12_StaticNeverFails ==
    (StaticThreeSeconds /\ cap # "none" /\ pc = "done") => StaticSelection

\* C12 amended: a uniformly static 3-second video with at least 5 frames in
\* its analysis window returns 5 frames, F1 and F5 at floor(0.10*L) and
\* floor(0.90*L), F2, F3 and F4 derived from the first interior position;
\* with fewer than 5 frames in the window (1 fps) the call fails.
C12_StaticReturnsFive ==
    (StaticThreeSeconds /\ cap # "none" /\ pc = "done") =>
        IF (27 * video_bytes.fps) \div 10 - (2 * video_bytes.fps) \div 10 >= 5
        THEN StaticSelection
        ELSE Raised("Not enough frames for analysis")

\* C12 witness: a static 3-second video has returned its 5 frames.
C12_Witness ==
    /\ StaticThreeSeconds
    /\ Len(frames_data) >= 5
    /\ StaticSelection

\* ------------------------------------------------- scenario: colour change

\* C13: for a 3-second, 30 fps video (90 frames) of one solid colour before
\* absolute frame 45 and a different solid colour from frame 45 on, the
\* frame selected as F3, as target and in the output, has absolute frame
\* index 44, 45 or 46.
C13_PeakAtColourChange ==
    /\ pc \in {"select", "quality", "release", "unlink", "return"} =>
          /\ peak_frame_idx \in {44, 45, 46}
          /\ frames_data[peak_motion_idx + 1][1] = peak_frame_idx
    /\ Returned =>
          /\ frames_data[quality_checked_frames[3] + 1][1] \in {44, 45, 46}
          /\ result.frames[3] =
                 video_bytes.frames[frames_data[quality_checked_frames[3] + 1][1]]

\* C13 witness: the call on the colour-change video has returned, the peak
\* taken at the last frame of the first colour.
C13_Witness ==
    /\ Returned
    /\ total_frames = 90
    /\ fps = 30
    /\ Len(frames_data) = 75
    /\ peak_frame_idx = 44
    /\ quality_checked_frames[3] = 38

\* -------------------------------------------------------------- the peak

\* The peak has been taken from the sorted scores.
PeakTaken ==
    /\ pc \in {"select", "quality", "release", "unlink", "return", "done"}
    /\ peak_motion_idx # -1

\* C14: the peak window position is the argmax of the combined score over
\* all positions that have a motion score, and of several positions with
\* the maximal score it is the lowest.
C14_PeakIsFirstArgmax ==
    PeakTaken =>
        /\ peak_motion_idx \in Interior
        /\ peak_frame_idx = frames_data[peak_motion_idx + 1][1]
        /\ \A i \in Interior :
              /\ CombinedScore(frames_data, i)
                     <= CombinedScore(frames_data, peak_motion_idx)
              /\ CombinedScore(frames_data, i)
                     = CombinedScore(frames_data, peak_motion_idx)
                        => peak_motion_idx <= i

\* C14 witness: the maximal score is shared by the peak and a later
\* position, and a position before the peak has a smaller score.
C14_Witness ==
    /\ PeakTaken
    /\ \E i \in Interior :
          /\ i > peak_motion_idx
          /\ CombinedScore(frames_data, i)
                 = CombinedScore(frames_data, peak_motion_idx)
    /\ \E i \in Interior :
          /\ i < peak_motion_idx
          /\ CombinedScore(frames_data, i)
                 < CombinedScore(frames_data, peak_motion_idx)

\* ----------------------------------------------------- the role targets

\* The five targets have been computed.
TargetsSet ==
    /\ pc \in {"quality", "release", "unlink", "return", "done"}
    /\ frames # <<>>

\* 0.t * x rounded to the nearest integer.
RoundTenths(t, x) == (t * x + 5) \div 10

\* clamp(x, lo, hi)
Clamp(x, lo, hi) == IF x < lo THEN lo ELSE IF x > hi THEN hi ELSE x

\* C15: the F2 target is clamp(peak - round(0.30*fps), 0, L-1) and the F4
\* target is clamp(peak + round(0.30*fps), 0, L-1), the offset rounded to
\* the nearest integer (fps = 3 gives offset 1).
C15_RoundedOffsets ==
    TargetsSet =>
        LET L == Len(frames_data)
        IN  /\ f2_idx = Clamp(peak_motion_idx - RoundTenths(3, fps), 0, L - 1)
            /\ f4_idx = Clamp(peak_motion_idx + RoundTenths(3, fps), 0, L - 1)

\* C16: the F1 target is floor(0.10*L) and the F5 target is floor(0.90*L),
\* whatever the peak position and fps; both lie in 0..L-1 as they are, so
\* the max(0, .) and min(L-1, .) guards leave them unchanged.
C16_FractionalOffsets ==
    TargetsSet =>
        LET L == Len(frames_data)
        IN  /\ L >= 5
            /\ f1_idx = L \div 10
            /\ f5_idx = (9 * L) \div 10
            /\ 0 <= L \div 10
            /\ (9 * L) \div 10 <= L - 1
            /\ frames[1] = f1_idx
            /\ frames[5] = f5_idx

\* C16 witness: a window of more than 10 frames, where floor(0.10*L) is
\* not the first and floor(0.90*L) not the last position.
C16_Witness ==
    /\ TargetsSet
    /\ f1_idx > 0
    /\ f5_idx < Len(frames_data) - 1

\* ------------------------------------------------------ the quality search

\* Role Fk (k in 1..5) has been through the quality check.
RoleChecked(k) ==
    /\ pc \in {"quality", "release", "unlink", "return", "done"}
    /\ Len(quality_checked_frames) >= k

\* The target of role Fk fails the thresholds, judged on the frame's values.
TargetFails(k) ==
    LET fr == frames_data[frames[k] + 1][2]
    IN  fr.sharp < 100 \/ fr.bright < 30 \/ fr.bright > 220

\* The frame at window position p satisfies both thresholds.
Passes(p) ==
    LET fr == frames_data[p + 1][2]
    IN  fr.sharp >= 100 /\ fr.bright >= 30 /\ fr.bright <= 220

\* The window positions the loop of lines 392-393 visits for role Fk.
Examined(k) ==
    {p \in StartSearch(frames_data, k - 1, fps)..EndSearch(frames_data, k - 1, fps) :
        p < Len(frames_data)}

\* The positions within round(0.20*fps) of the target position of role Fk.
WithinRadius(k) ==
    LET t == frames[k]
        r == RoundTenths(2, fps)
    IN  {p \in 0..(Len(frames_data) - 1) : t - r <= p /\ p <= t + r}

\* C17: when the target of a role fails the thresholds, the candidates the
\* search examines are exactly the window positions p with
\* max(0, t - r) <= p <= min(L-1, t + r), t the target position of the role
\* and r = round(0.20*fps).
C17_SearchWindow ==
    \A k \in 1..5 :
        (RoleChecked(k) /\ TargetFails(k)) => Examined(k) = WithinRadius(k)

\* sharpness + brightness of the frame at window position p.
ScoreAt(p) == frames_data[p + 1][2].sharp + frames_data[p + 1][2].bright

\* C18: when the target of a role fails the thresholds and some examined
\* candidate satisfies both, the output frame of the role is an examined
\* candidate that satisfies both thresholds and has the highest
\* sharpness + brightness among the examined candidates that satisfy both.
C18_BestPassingCandidate ==
    \A k \in 1..5 :
        (/\ RoleChecked(k)
         /\ TargetFails(k)
         /\ \E p \in Examined(k) : Passes(p)) =>
            LET q == quality_checked_frames[k]
            IN  /\ q \in Examined(k)
                /\ Passes(q)
                /\ \A p \in Examined(k) : Passes(p) => ScoreAt(p) <= ScoreAt(q)

\* The target of role Fk fails and no examined candidate satisfies both
\* thresholds.
NothingBetter(k) ==
    /\ TargetFails(k)
    /\ \A p \in Examined(k) : ~Passes(p)

\* C19: when the target of a role fails the thresholds and no examined
\* candidate satisfies both, the output frame of the role is the original
\* target frame; once the targets are set no exception is raised, whatever
\* number of roles fail, and the call returns its 5 frames.
C19_FallbackToOriginal ==
    /\ \A k \in 1..5 :
          (RoleChecked(k) /\ NothingBetter(k)) =>
              /\ quality_checked_frames[k] = frames[k]
              /\ Returned => result.frames[k] = frames_data[frames[k] + 1][2]
    /\ TargetsSet =>
          /\ exc = ""
          /\ pc # "except"
          /\ pc = "done" => Returned /\ DOMAIN result.frames = 1..5

\* C19 witness: the call has returned 5 frames although all 5 targets fail
\* and nothing examined passes, one search having met a different failing
\* frame of higher sharpness + brightness.
C19_Witness ==
    /\ Returned
    /\ \A k \in 1..5 : NothingBetter(k)
    /\ \E k \in 1..5 : \E p \in Examined(k) : ScoreAt(p) > ScoreAt(frames[k])

\* ------------------------------------------------- the quality predicate

\* C20: a frame passes quality exactly when sharpness >= 100 and
\* 30 <= brightness <= 220, the values 100, 30 and 220 passing. The check
\* of a target and the acceptance of a candidate use this predicate: a
\* target that passes is output as it is, a target that does not is
\* searched for, and a frame put in its place passes.
C20_PassPredicate ==
    /\ \A p \in 0..(Len(frames_data) - 1) :
          /\ PoorQuality(frames_data[p + 1][2]) <=> ~Passes(p)
          /\ CandidateOk(frames_data[p + 1][2]) <=> Passes(p)
    /\ \A k \in 1..5 :
          RoleChecked(k) =>
              /\ Passes(frames[k]) => quality_checked_frames[k] = frames[k]
              /\ quality_checked_frames[k] # frames[k] =>
                    /\ TargetFails(k)
                    /\ Passes(quality_checked_frames[k])
              /\ TargetFails(k) =>
                    quality_checked_frames[k] =
                        SearchLoop(frames_data,
                                   StartSearch(frames_data, k - 1, fps),
                                   EndSearch(frames_data, k - 1, fps),
                                   frames[k], ScoreAt(frames[k]))

\* C20 witness: a target with sharpness 100 and brightness 30 is kept
\* although a passing frame of higher score is in reach, and a failing
\* target is replaced by a frame of brightness 220.
C20_Witness ==
    /\ RoleChecked(5)
    /\ \E k \in 1..5 :
          /\ frames_data[frames[k] + 1][2].sharp = 100
          /\ frames_data[frames[k] + 1][2].bright = 30
          /\ quality_checked_frames[k] = frames[k]
          /\ \E p \in Examined(k) :
                Passes(p) /\ ScoreAt(p) > ScoreAt(frames[k])
    /\ \E k \in 1..5 :
          /\ TargetFails(k)
          /\ quality_checked_frames[k] # frames[k]
          /\ frames_data[quality_checked_frames[k] + 1][2].bright = 220

\* ------------------------------------------------------ the analysis window

\* The loop of lines 289-293 has run.
WindowRead == start_frame # -1 /\ pc # "read"

\* floor((duration - 0.3) * fps), duration being total_frames / fps, or 3.0
\* when fps is 0.
WindowEnd == IF fps > 0 THEN (10 * total_frames - 3 * fps) \div 10 ELSE 0

\* C21: the analysis window is [floor(0.2*fps), floor((duration-0.3)*fps));
\* every materialized frame has an absolute index inside it and is the
\* frame of the video at that index, the indices are strictly increasing,
\* exactly the frames whose read fails are skipped, and nothing outside the
\* window is held.
C21_WindowFrames ==
    WindowRead =>
        /\ start_frame = (2 * fps) \div 10
        /\ end_frame = WindowEnd
        /\ \A p \in 1..Len(frames_data) :
              /\ start_frame <= frames_data[p][1]
              /\ frames_data[p][1] < end_frame
              /\ frames_data[p][1] \in 0..(video_bytes.total - 1)
              /\ frames_data[p][1] \notin video_bytes.unreadable
              /\ frames_data[p][2] = video_bytes.frames[frames_data[p][1]]
        /\ \A p \in 1..(Len(frames_data) - 1) :
              frames_data[p][1] < frames_data[p + 1][1]
        /\ \A i \in start_frame..(end_frame - 1) :
              (i \in 0..(video_bytes.total - 1) /\ i \notin video_bytes.unreadable)
                  => \E p \in 1..Len(frames_data) : frames_data[p][1] = i

\* C21 witness: a window that starts after frame 0 and ends before the
\* last frame has been read, some read inside it failing and the frames
\* on both sides of the failure being kept.
C21_Witness ==
    /\ WindowRead
    /\ start_frame > 0
    /\ end_frame < total_frames
    /\ Len(frames_data) >= 2
    /\ Len(frames_data) < end_frame - start_frame
    /\ frames_data[1][1] = start_frame
    /\ frames_data[Len(frames_data)][1] = end_frame - 1

\* ------------------------------------------------------- the motion scores

\* The loop of lines 302-327 has run.
Scored ==
    \/ pc \in {"peak", "select", "quality", "release", "unlink", "return"}
    \/ pc = "done" /\ result.kind = "returned"

\* The sum of the pixel and edge differences of the frame at window
\* position i (0-based) to its two neighbours.
NeighbourDiff(i) ==
    LET a == frames_data[i][2]
        b == frames_data[i + 1][2]
        c == frames_data[i + 2][2]
        d(x, y) == IF x >= y THEN x - y ELSE y - x
    IN  d(a.pix, b.pix) + d(b.pix, c.pix) + d(a.edge, b.edge) + d(b.edge, c.edge)

\* C22: a window of L frames gets exactly L-2 scores, one for each interior
\* position 1..L-2 and none for positions 0 and L-1, each computed from the
\* frames at i-1, i, i+1 and carrying the absolute frame index of position
\* i; L >= 5, so the list is not empty when the peak is taken and the peak
\* position lies in 1..L-2.
C22_InteriorScores ==
    Scored =>
        LET L == Len(frames_data)
        IN  /\ L >= 5
            /\ Len(motion_scores) = L - 2
            /\ motion_scores # <<>>
            /\ \A i \in 1..(L - 2) :
                  \E k \in 1..Len(motion_scores) : motion_scores[k][1] = i
            /\ \A k \in 1..Len(motion_scores) :
                  /\ motion_scores[k][1] \in 1..(L - 2)
                  /\ motion_scores[k][2] = NeighbourDiff(motion_scores[k][1])
                  /\ motion_scores[k][3] = frames_data[motion_scores[k][1] + 1][1]
            /\ pc = "peak" => \A k \in 1..Len(motion_scores) : motion_scores[k][1] = k
            /\ pc # "peak" => peak_motion_idx \in 1..(L - 2)

\* C22 witness: the peak was taken from the scores of a window of 5 frames
\* and is the last interior position, the reads after it having failed.
C22_Witness ==
    /\ Scored
    /\ pc # "peak"
    /\ Len(frames_data) = 5
    /\ Len(frames_data) < end_frame - start_frame
    /\ peak_motion_idx = 3
    /\ frames_data[5][1] > peak_frame_idx + 1

\* All frames of the window are the same picture.
StaticWindow ==
    \A p, q \in 1..Len(frames_data) : frames_data[p][2] = frames_data[q][2]

\* Every score of the list is zero.
AllScoresZero == \A k \in 1..Len(motion_scores) : motion_scores[k][2] = 0

\* C23: the scoring step never fails and has no side effect: it leaves the
\* window (order, indices, pixels) as it was, raises nothing and hands over
\* to the peak search; for a window of identical frames every interior
\* position gets the same score, zero.
C23_ScoringIsPure ==
    [][pc = "score" =>
          /\ frames_data' = frames_data
          /\ pc' = "peak"
          /\ exc' = ""
          /\ Len(motion_scores') = Len(frames_data) - 2
          /\ StaticWindow => AllScoresZero']_vars

\* C23 witness: a window of identical frames has been scored, all zero.
C23_Witness ==
    /\ pc = "peak"
    /\ StaticWindow
    /\ Len(motion_scores) >= 3
    /\ AllScoresZero

\* ------------------------------------------------------------ the duration

\* The properties of the capture have been read.
PropsRead == fps # -1

\* C24: the duration is total_frames / fps when the reported fps is > 0 and
\* 3.0 when it is 0; a video reporting fps = 0 is never rejected as too
\* short, whatever its frame count.
C24_DurationFallback ==
    PropsRead =>
        /\ fps > 0 => duration[1] * fps = total_frames * duration[2]
        /\ fps = 0 =>
              /\ duration[1] = 3 * duration[2]
              /\ exc # "Video too short - minimum 2 seconds required for proper disposal verification"
              /\ pc \notin {"props", "check"} => start_frame # -1
        /\ duration[2] > 0

\* C24 witness: a video reporting fps = 0 and a single frame has passed the
\* duration check.
C24_Witness ==
    /\ PropsRead
    /\ fps = 0
    /\ total_frames = 1
    /\ pc = "read"

\* C25: when the decoder reports fps = 0 the window is empty (start frame =
\* end frame = 0), no frame is read, and the call always ends with the
\* not-enough-frames error, however many frames the video holds.
C25_ZeroFpsAlwaysFails ==
    (PropsRead /\ fps = 0) =>
        /\ pc \in {"check", "read", "except", "done"}
        /\ frames_data = <<>>
        /\ reads = 0
        /\ quality_checked_frames = <<>>
        /\ pc \in {"read", "except", "done"} =>
              start_frame = 0 /\ end_frame = 0
        /\ pc = "except" => exc = "Not enough frames for analysis"
        /\ pc = "done" => Raised("Not enough frames for analysis")

\* C25 witness: a video of 12 readable frames reporting fps = 0 has ended
\* with the not-enough-frames error.
C25_Witness ==
    /\ fps = 0
    /\ total_frames = 12
    /\ video_bytes.unreadable = {}
    /\ Raised("Not enough frames for analysis")

\* ------------------------------------------------------------ index safety

\* C26: the five target positions lie in 0..L-1, and so does every position
\* the quality search uses to index the window and every output position,
\* also when failed reads leave gaps in the absolute frame indices.
C26_IndexSafety ==
    TargetsSet =>
        LET L == Len(frames_data)
        IN  /\ L >= 5
            /\ fps >= 0
            /\ peak_motion_idx \in 1..(L - 2)
            /\ \A k \in 1..5 : frames[k] \in 0..(L - 1)
            /\ frames = <<f1_idx, f2_idx, peak_motion_idx, f4_idx, f5_idx>>
            /\ \A k \in 1..5 :
                  \A p \in StartSearch(frames_data, k - 1, fps)
                               ..EndSearch(frames_data, k - 1, fps) :
                      p \in 0..(L - 1)
            /\ \A k \in 1..Len(quality_checked_frames) :
                  quality_checked_frames[k] \in 0..(L - 1)

\* C26 witness: the call has returned from a window with a gap in its
\* absolute indices, where the search for a failing F5 target was centred
\* on an absolute index beyond the last window position and the F4 target
\* was clamped to the last position.
C26_Witness ==
    /\ Returned
    /\ Len(frames_data) < end_frame - start_frame
    /\ TargetFails(5)
    /\ frames_data[f5_idx + 1][1] > Len(frames_data) - 1
    /\ peak_motion_idx + (3 * fps) \div 10 > Len(frames_data) - 1
    /\ f4_idx = Len(frames_data) - 1

\* ------------------------------------------------------ order of the roles

\* C27: before quality replacement the targets satisfy F2 <= F3 <= F4 and
\* F1 < F5 (F1 may lie after F2 and F3, and F4 after F5).
C27_TargetOrder ==
    TargetsSet =>
        /\ frames[2] <= frames[3]
        /\ frames[3] <= frames[4]
        /\ frames[1] < frames[5]
        /\ f2_idx <= peak_motion_idx
        /\ peak_motion_idx <= f4_idx
        /\ f1_idx < f5_idx

\* C27 witness: targets with F2 < F3 < F4 where F4 lies after F5.
C27_Witness ==
    /\ TargetsSet
    /\ f2_idx < peak_motion_idx
    /\ peak_motion_idx < f4_idx
    /\ f4_idx > f5_idx

\* Targets where F1 lies after F2.
C27_F1AfterF2 ==
    /\ TargetsSet
    /\ f2_idx < f1_idx
    /\ f2_idx < peak_motion_idx

\* ------------------------------------------------------- repeated targets

\* C28: nothing removes or re-orders repeated positions: when several roles
\* have the same target position the call still returns exactly 5 entries,
\* the slots of those roles hold the same window frame, the target's, unless
\* quality replacement changed it, and in every case slot k holds the
\* frame chosen for role Fk.
C28_NoDeduplication ==
    Returned =>
        /\ DOMAIN result.frames = 1..5
        /\ DOMAIN quality_checked_frames = 1..5
        /\ \A k \in 1..5 :
              result.frames[k] = frames_data[quality_checked_frames[k] + 1][2]
        /\ \A j, k \in 1..5 :
              (/\ frames[j] = frames[k]
               /\ quality_checked_frames[j] = frames[j]
               /\ quality_checked_frames[k] = frames[k]) =>
                  /\ result.frames[j] = result.frames[k]
                  /\ result.frames[j] = frames_data[frames[j] + 1][2]

\* C28 witness: 5 frames were returned where the clamp pinned F2 to the
\* first position, F1's target, no replacement took place and the window
\* holds another picture as well.
C28_Witness ==
    /\ Returned
    /\ fps = 7
    /\ f2_idx = 0 /\ f1_idx = 0 /\ peak_motion_idx - 2 < 0
    /\ quality_checked_frames = frames
    /\ result.frames[1] = result.frames[2]
    /\ result.frames[3] # result.frames[1]

\* 5 frames were returned where F2, F3 and F4 are one position, the offset
\* being 0.
C28_OffsetZero ==
    /\ Returned
    /\ fps = 3
    /\ f2_idx = peak_motion_idx /\ f4_idx = peak_motion_idx
    /\ result.frames[2] = result.frames[3]
    /\ result.frames[3] = result.frames[4]

\* ------------------------------------------------- release of the capture

\* C29: on every exit path on which the capture was opened, the successful
\* return and every failure raised after opening, the capture is released,
\* and it is released before the temp file is removed.
C29_CaptureReleased ==
    /\ (pc = "done" /\ cap \in {"open", "released"}) => cap = "released"
    /\ cap = "open" => temp_video_path \in files

(***************************************************************************)
(* analyze_video_sequence_with_gemini (lines 426-474) and the one attempt  *)
(* it repeats, _perform_gemini_analysis (lines 477-596).                   *)
(***************************************************************************)

\* What one request to the model can come back with: a JSON object, a JSON
\* object that itself carries "fallback": true, no text, text without JSON,
\* malformed JSON, JSON that is not an object, or an exception of the client.
GeminiResponses ==
    {"json", "json_flagged", "empty", "no_json", "bad_json", "not_dict",
     "error"}

\* A result dictionary, reduced to what the retry loop looks at.
AnalysisResult(fb, m) == [fallback |-> fb, empty |-> FALSE, message |-> m]

\* _perform_gemini_analysis: every path returns a dictionary, the except
\* clause of lines 588-596 included, so no exception leaves it.
PerformGeminiAnalysis(resp) ==
    CASE resp = "json"         -> AnalysisResult(FALSE, "analysis")
      [] resp = "json_flagged" -> AnalysisResult(TRUE, "analysis")
      [] resp = "empty"        -> AnalysisResult(TRUE, "Gemini returned empty response")
      [] resp = "no_json"      -> AnalysisResult(FALSE, "Unable to parse response")
      [] resp = "bad_json"     -> AnalysisResult(FALSE, "JSON parsing failed")
      [] resp = "not_dict"     -> AnalysisResult(TRUE, "Invalid response structure")
      [] resp = "error"        -> AnalysisResult(TRUE, "API error occurred")

IsValidResult_any(r) == ~r.empty

\* Line 446: result and not result.get("fallback", False).
IsValidResult(r) == ~r.empty /\ ~r.fallback

ShouldRetry_never(a, m) == a < 0

\* Line 450: if attempt < max_retries: continue.
ShouldRetry(a, m) == a < m

\* Line 440: attempt in range(max_retries + 1).
InRange(a, m) == a >= 0 /\ a < m + 1

\* Lines 431-438: the model is not available.
GeminiUnavailable ==
    /\ analysis_pc = "run"
    /\ ~GEMINI_AVAILABLE
    /\ analysis' = AnalysisResult(TRUE, "Gemini API not available")
    /\ analysis_pc' = "done"
    /\ UNCHANGED <<GEMINI_AVAILABLE, max_retries, attempt, attempts_made>>
    /\ UNCHANGED extraction

\* Lines 440-454: one iteration of the loop. The handler of lines 456-466
\* needs an exception out of _perform_gemini_analysis, which has none.
GeminiAttempt ==
    /\ analysis_pc = "run"
    /\ GEMINI_AVAILABLE
    /\ InRange(attempt, max_retries)
    /\ \E resp \in GeminiResponses :
         LET r == PerformGeminiAnalysis(resp) IN
         /\ attempts_made' = Append(attempts_made, <<attempt + 1, resp>>)
         /\ IF IsValidResult(r)
            THEN /\ analysis' = r
                 /\ analysis_pc' = "done"
                 /\ attempt' = attempt
            ELSE IF ShouldRetry(attempt, max_retries)
            THEN /\ attempt' = attempt + 1
                 /\ UNCHANGED <<analysis, analysis_pc>>
            ELSE /\ analysis' = r
                 /\ analysis_pc' = "done"
                 /\ attempt' = attempt
    /\ UNCHANGED <<GEMINI_AVAILABLE, max_retries>>
    /\ UNCHANGED extraction

\* Lines 468-474: the loop ran out without returning.
GeminiLoopEnd ==
    /\ analysis_pc = "run"
    /\ GEMINI_AVAILABLE
    /\ ~InRange(attempt, max_retries)
    /\ analysis' = AnalysisResult(TRUE, "Analysis failed")
    /\ analysis_pc' = "done"
    /\ UNCHANGED <<GEMINI_AVAILABLE, max_retries, attempt, attempts_made>>
    /\ UNCHANGED extraction

\* A call of analyze_video_sequence_with_gemini starts; the keyframe
\* extraction is at rest.
InitGemini ==
    /\ video_bytes = NotAVideo
    /\ other = NewOther("good", "idle")
    /\ InitDisk
    /\ InitLocals
    /\ GEMINI_AVAILABLE \in BOOLEAN
    /\ max_retries \in -1..MaxRetries
    /\ attempt = 0
    /\ attempts_made = <<>>
    /\ analysis = NoAnalysis
    /\ analysis_pc = "run"

NextGemini == GeminiUnavailable \/ GeminiAttempt \/ GeminiLoopEnd

SpecGemini == InitGemini /\ [][NextGemini]_vars

\* The call has returned.
AnalysisDone == analysis_pc = "done"

\* The responses of the attempts made so far, in order.
AttemptsAreNumbered ==
    \A k \in 1..Len(attempts_made) : attempts_made[k][1] = k

\* C30: with the model available and max_retries >= 0 the call makes between
\* 1 and max_retries + 1 attempts, numbered in order; it returns the result
\* of the first attempt whose result is not flagged as fallback, with no
\* attempt after it, and otherwise a fallback result after attempt
\* max_retries + 1; with the model unavailable it makes no attempt and
\* returns a fallback result; it always returns a result.
C30_RetryLoop ==
    /\ AttemptsAreNumbered
    /\ analysis_pc \in {"run", "done"}
    /\ Len(attempts_made) <= (IF max_retries >= 0 THEN max_retries + 1 ELSE 0)
    /\ \A k \in 1..(Len(attempts_made) - 1) :
         attempts_made[k][2] \notin {"json", "no_json", "bad_json"}
    /\ (AnalysisDone /\ ~GEMINI_AVAILABLE) =>
         /\ attempts_made = <<>>
         /\ analysis.fallback /\ ~analysis.empty
    /\ (AnalysisDone /\ GEMINI_AVAILABLE /\ max_retries >= 0) =>
         LET n == Len(attempts_made) IN
         /\ n >= 1
         /\ ~analysis.empty
         /\ analysis = PerformGeminiAnalysis(attempts_made[n][2])
         /\ \/ /\ ~analysis.fallback
               /\ attempts_made[n][2] \in {"json", "no_json", "bad_json"}
            \/ /\ analysis.fallback
               /\ n = max_retries + 1
               /\ attempts_made[n][2] \in
                    {"json_flagged", "empty", "not_dict", "error"}

\* Two flagged attempts were followed by a third that returned an analysis.
C30_Witness ==
    /\ AnalysisDone /\ GEMINI_AVAILABLE /\ max_retries = 2
    /\ Len(attempts_made) = 3
    /\ attempts_made[1][2] = "error" /\ attempts_made[2][2] = "empty"
    /\ attempts_made[3][2] = "json"
    /\ ~analysis.fallback

\* Every attempt allowed was made and the last fallback result was returned.
C30_Exhausted ==
    /\ AnalysisDone /\ GEMINI_AVAILABLE /\ max_retries = 1
    /\ Len(attempts_made) = 2
    /\ analysis = AnalysisResult(TRUE, "API error occurred")

====
